---- MODULE Spec2Model ----
(***************************************************************************)
(* A model of codegen_agent: the retry orchestrator AgentWorkflow.run      *)
(* (src/codegen_agent/core/workflow.py), which generates code once,        *)
(* executes it in the sandbox, has the execution assessed and loops on     *)
(* the verdict.  The Generation Oracle, the Assessment Oracle and the      *)
(* sandbox are external: every value they can return (or their raising)    *)
(* is a nondeterministic choice from a small set.                          *)
(***************************************************************************)
EXTENDS Integers, Sequences, FiniteSets, TLC

\* Largest max_code_generation the model configures a workflow with.
MaxCodeGeneration == 3

\* The loop is cut off after this many sandbox executions (never reached by
\* the code as written: see RunCapNotReached).
RunCap == MaxCodeGeneration + 1

\* Code texts the Generation Oracle may return.
GeneratedCodes == {"a", "b"}

\* Code texts a verdict may carry; "" is the empty/absent replacement code.
VerdictCodes == {"", "a", "b"}

\* Plans a verdict may carry.
Plans == {"p1", "p2"}

Max(x, y) == IF x >= y THEN x ELSE y

----------------------------------------------------------------------------
\* Value objects (core/models.py)

\* What one sandbox execution can return.
ExecutionResults ==
    { [stdout |-> "out", stderr |-> "", returncode |-> 0],
      [stdout |-> "", stderr |-> "err", returncode |-> 1] }

\* ExecutionResult.empty_result()
EmptyExecutionResult == [stdout |-> "", stderr |-> "", returncode |-> 0]

\* CodeGenerationResult.empty_result()
EmptyCodeResult == [code |-> ""]

\* CodeAssessmentResult.empty_assessment()
EmptyAssessment ==
    [success |-> FALSE, should_retry |-> FALSE, plan |-> "", code |-> ""]

\* What the Assessment Oracle can return.
Verdicts ==
    [success : BOOLEAN, should_retry : BOOLEAN, plan : Plans, code : VerdictCodes]

\* A history item that records the plan of its own verdict.
HistoryItemOwnPlan(plan, code, result, verdict) ==
    [plan |-> verdict.plan, code |-> code, execution_result |-> result,
     assessment |-> verdict]

\* ExecutionAssessmentHistoryItem(plan, code, execution_result, assessment)
HistoryItem(plan, code, result, verdict) ==
    [plan |-> plan, code |-> code, execution_result |-> result,
     assessment |-> verdict]

----------------------------------------------------------------------------
VARIABLES
    pc,                    \* position of run: generate, execute, assess, done, raised
    max_code_generation,   \* self.max_code_generation
    code_generation_count, \* self.code_generation_count
    current_code,          \* self.current_code
    code_result,           \* self.code_result
    execution_result,      \* self.execution_result
    assessment,            \* self.assessment
    history,               \* self.history
    orig_plan,             \* local orig_plan of the loop body
    gen_calls,             \* calls of codegen.generate_code
    assess_calls,          \* calls of assessor.assess_code_output
    sandbox_runs,          \* the code of every sandbox_execute call that returned
    saved,                 \* the code of every ui.save_to_notebook call
    outcome                \* how run ended: the return or raise it left by

vars == << pc, max_code_generation, code_generation_count, current_code,
           code_result, execution_result, assessment, history, orig_plan,
           gen_calls, assess_calls, sandbox_runs, saved, outcome >>

\* AgentWorkflow.__init__
Init ==
    /\ pc = "generate"
    /\ max_code_generation \in 0..MaxCodeGeneration
    /\ code_generation_count = 0
    /\ current_code = ""
    /\ code_result = EmptyCodeResult
    /\ execution_result = EmptyExecutionResult
    /\ assessment = EmptyAssessment
    /\ history = << >>
    /\ orig_plan = ""
    /\ gen_calls = 0
    /\ assess_calls = 0
    /\ sandbox_runs = << >>
    /\ saved = << >>
    /\ outcome = "none"

----------------------------------------------------------------------------
\* run, first generation: the Generation Oracle returns code.
GenerateCode ==
    /\ pc = "generate"
    /\ \E c \in GeneratedCodes :
         /\ code_result' = [code |-> c]
         /\ current_code' = c
    /\ gen_calls' = gen_calls + 1
    /\ pc' = "execute"
    /\ UNCHANGED << max_code_generation, code_generation_count, execution_result,
                    assessment, history, orig_plan, assess_calls, sandbox_runs,
                    saved, outcome >>

\* run, first generation: the Generation Oracle raises, and run with it.
GenerateRaises ==
    /\ pc = "generate"
    /\ gen_calls' = gen_calls + 1
    /\ pc' = "raised"
    /\ outcome' = "generate_error"
    /\ UNCHANGED << max_code_generation, code_generation_count, current_code,
                    code_result, execution_result, assessment, history, orig_plan,
                    assess_calls, sandbox_runs, saved >>

\* The attempt counter left as it was.
CountNotIncremented(count) == count

\* self.code_generation_count += 1
CountAfterSandboxRun(count) == count + 1

\* Top of the loop body up to the await of the assessor: the sandbox returns a
\* result, the attempt is counted and the plan of the previous verdict is kept.
Execute ==
    /\ pc = "execute"
    /\ Len(sandbox_runs) < RunCap
    /\ \E r \in ExecutionResults : execution_result' = r
    /\ sandbox_runs' = Append(sandbox_runs, current_code)
    /\ code_generation_count' = CountAfterSandboxRun(code_generation_count)
    /\ orig_plan' = assessment.plan
    /\ pc' = "assess"
    /\ UNCHANGED << max_code_generation, current_code, code_result, assessment,
                    history, gen_calls, assess_calls, saved, outcome >>

\* sandbox_execute raises (image build failure, staging error): run raises.
ExecuteRaises ==
    /\ pc = "execute"
    /\ Len(sandbox_runs) < RunCap
    /\ pc' = "raised"
    /\ outcome' = "execute_error"
    /\ UNCHANGED << max_code_generation, code_generation_count, current_code,
                    code_result, execution_result, assessment, history, orig_plan,
                    gen_calls, assess_calls, sandbox_runs, saved >>

\* The history overwritten with the latest item instead of extended by it.
KeepOnlyLastItem(h, item) == << item >>

\* self.history.append(ExecutionAssessmentHistoryItem(...))
AppendHistory(h, item) == Append(h, item)

\* The retry made with the code that has just been executed.
KeepCurrentCode(current, verdict) == current

\* self.current_code = self.assessment.code
ReplacementCode(current, verdict) == verdict.code

\* Branch with the budget test written `>` for `>=`.
BranchOffByOne(verdict, count, max) ==
    IF verdict.success THEN "succeeded"
    ELSE IF count > max THEN "exhausted"
    ELSE IF verdict.should_retry /\ verdict.code # "" THEN "retry"
    ELSE "again"

\* Branch with the retry test placed before the budget test.
BranchRetryFirst(verdict, count, max) ==
    IF verdict.success THEN "succeeded"
    ELSE IF verdict.should_retry /\ verdict.code # "" THEN "retry"
    ELSE IF count >= max THEN "exhausted"
    ELSE "again"

\* Branch with the budget test placed before the success test.
BranchExhaustedFirst(verdict, count, max) ==
    IF count >= max THEN "exhausted"
    ELSE IF verdict.success THEN "succeeded"
    ELSE IF verdict.should_retry /\ verdict.code # "" THEN "retry"
    ELSE "again"

\* The branch the loop body takes after appending the history item.
Branch(verdict, count, max) ==
    IF verdict.success THEN "succeeded"
    ELSE IF count >= max THEN "exhausted"
    ELSE IF verdict.should_retry /\ verdict.code # "" THEN "retry"
    ELSE "again"

\* What every return of the Assessment Oracle does before the branch.
Assessed(verdict) ==
    /\ assess_calls' = assess_calls + 1
    /\ assessment' = verdict
    /\ history' = AppendHistory(history,
                     HistoryItem(orig_plan, current_code, execution_result, verdict))

\* The verdict reports success: the code is saved and run returns.
AssessSucceeded ==
    /\ pc = "assess"
    /\ \E v \in Verdicts :
         /\ Branch(v, code_generation_count, max_code_generation) = "succeeded"
         /\ Assessed(v)
    /\ saved' = Append(saved, current_code)
    /\ pc' = "done"
    /\ outcome' = "SUCCEEDED"
    /\ UNCHANGED << max_code_generation, code_generation_count, current_code,
                    code_result, execution_result, orig_plan, gen_calls,
                    sandbox_runs >>

\* AssessExhausted with the replacement code adopted before the budget test.
AssessExhaustedAdoptsCode ==
    /\ pc = "assess"
    /\ \E v \in Verdicts :
         /\ Branch(v, code_generation_count, max_code_generation) = "exhausted"
         /\ Assessed(v)
         /\ current_code' = IF v.should_retry /\ v.code # ""
                             THEN ReplacementCode(current_code, v)
                             ELSE current_code
    /\ pc' = "done"
    /\ outcome' = "EXHAUSTED"
    /\ UNCHANGED << max_code_generation, code_generation_count, code_result,
                    execution_result, orig_plan, gen_calls, sandbox_runs, saved >>

\* No success and the attempt counter has reached the maximum: run returns.
AssessExhausted ==
    /\ pc = "assess"
    /\ \E v \in Verdicts :
         /\ Branch(v, code_generation_count, max_code_generation) = "exhausted"
         /\ Assessed(v)
    /\ pc' = "done"
    /\ outcome' = "EXHAUSTED"
    /\ UNCHANGED << max_code_generation, code_generation_count, current_code,
                    code_result, execution_result, orig_plan, gen_calls,
                    sandbox_runs, saved >>

\* The verdict asks for a retry and supplies code: adopt it and loop.
AssessRetry ==
    /\ pc = "assess"
    /\ \E v \in Verdicts :
         /\ Branch(v, code_generation_count, max_code_generation) = "retry"
         /\ Assessed(v)
         /\ current_code' = ReplacementCode(current_code, v)
    /\ pc' = "execute"
    /\ UNCHANGED << max_code_generation, code_generation_count, code_result,
                    execution_result, orig_plan, gen_calls, sandbox_runs, saved,
                    outcome >>

\* No retry asked or no code supplied: the if-statement is skipped and the
\* body of `while True` ends, so the loop starts over with the same code.
AssessAgain ==
    /\ pc = "assess"
    /\ \E v \in Verdicts :
         /\ Branch(v, code_generation_count, max_code_generation) = "again"
         /\ Assessed(v)
    /\ pc' = "execute"
    /\ UNCHANGED << max_code_generation, code_generation_count, current_code,
                    code_result, execution_result, orig_plan, gen_calls,
                    sandbox_runs, saved, outcome >>

\* AssessRaises with the error swallowed: the loop goes on to execute again.
AssessRaisesSwallowed ==
    /\ pc = "assess"
    /\ assess_calls' = assess_calls + 1
    /\ pc' = "execute"
    /\ outcome' = "assess_error"
    /\ UNCHANGED << max_code_generation, code_generation_count, current_code,
                    code_result, execution_result, assessment, history, orig_plan,
                    gen_calls, sandbox_runs, saved >>

\* The Assessment Oracle raises: run raises with the attempt already counted.
AssessRaises ==
    /\ pc = "assess"
    /\ assess_calls' = assess_calls + 1
    /\ pc' = "raised"
    /\ outcome' = "assess_error"
    /\ UNCHANGED << max_code_generation, code_generation_count, current_code,
                    code_result, execution_result, assessment, history, orig_plan,
                    gen_calls, sandbox_runs, saved >>

----------------------------------------------------------------------------
\* The relevance filter of runner.py: code text is a sequence of characters.

\* Longest code text given to the filter on its own.
MaxCodeLen == 3

Letters == {"a", "b"}
Digits  == {"1"}

\* Characters of a code text: identifier characters, a separator, and a letter
\* outside ASCII (a word character for \b, outside the classes of the pattern).
Chars == Letters \cup Digits \cup {" ", "é"}

\* [a-zA-Z_]
IsIdentStart(c) == c \in Letters

\* [a-zA-Z0-9_]
IsIdentChar(c) == c \in Letters \cup Digits

\* \w of a str pattern: alphanumeric in Unicode, or the underscore.
IsWordChar(c) == c \in Letters \cup Digits \cup {"é"}

\* The pattern without its \b anchors: every position passes.
NoBoundary(code, i) == TRUE

\* \b at position i, between code[i-1] and code[i]: exactly one side is a word
\* character (the start and the end of the text count as non-word).
Boundary(code, i) ==
    LET before == i > 1 /\ IsWordChar(code[i - 1])
        after  == i <= Len(code) /\ IsWordChar(code[i])
    IN  before # after

\* The furthest position the greedy [a-zA-Z0-9_]* reaches from a start at i.
RECURSIVE GreedyEnd(_, _)
GreedyEnd(code, j) ==
    IF j <= Len(code) /\ IsIdentChar(code[j]) THEN GreedyEnd(code, j + 1) ELSE j

\* The match of the pattern that starts at i: the position after its last
\* character, backtracking from the greedy end to the first \b, or 0 for none.
MatchEnd(code, i) ==
    IF ~(Boundary(code, i) /\ IsIdentStart(code[i])) THEN 0
    ELSE LET ends == { j \in (i + 1)..GreedyEnd(code, i + 1) : Boundary(code, j) }
         IN  IF ends = {} THEN 0
             ELSE CHOOSE j \in ends : \A k \in ends : k <= j

\* re.findall(variable_pattern, code) from position i on: the scan resumes
\* after each match and one character further where none starts.
RECURSIVE FindAll(_, _)
FindAll(code, i) ==
    IF i > Len(code) THEN {}
    ELSE LET j == MatchEnd(code, i)
         IN  IF j = 0 THEN FindAll(code, i + 1)
             ELSE {SubSeq(code, i, j - 1)} \cup FindAll(code, j)

\* _find_used_variables(code, namespace)
FindUsedVariables(code, namespace) ==
    LET used == FindAll(code, 1)
    IN  [k \in { n \in DOMAIN namespace : n \in used } |-> namespace[k]]

\* Every code text of at most n characters.
CodeTexts(n) == UNION { [1..m -> Chars] : m \in 0..n }

\* Names a caller's namespace may bind, identifiers and other keys alike.
VariableNames == { <<"a">>, <<"b">>, <<"a", "b">>, <<"1", "a">>, <<"a", "é">> }

VariableValues == {"v1", "v2"}

\* Every namespace over the given names.
Namespaces(names) == UNION { [D -> VariableValues] : D \in SUBSET names }

----------------------------------------------------------------------------
\* runner.execute and DockerRuntime: the sandbox workspace and the docker CLI.

\* Calls a script makes to execute and to ensure_image, one after the other.
MaxCalls == 2

\* Default of the image parameter of execute.
ExecuteImage == "codegen-agent-runner:py313"

\* Default image of DockerRuntime when LLM_ANALYZE_RUNNER_IMAGE is not set.
DefaultImage == "llm-analyze-runner:py313"

\* A value of LLM_ANALYZE_RUNNER_IMAGE in the environment of the process.
EnvImage == "prebuilt-runner:env"

\* DockerRuntime.__init__: `image or os.environ.get(name, default)`, with env
\* the value of the environment variable ("" when it is not set).
RuntimeImage(image, env) ==
    IF image # "" THEN image ELSE IF env # "" THEN env ELSE DefaultImage

\* The text of the code the orchestrator holds under a label.
SourceText(c) == IF c = "" THEN << >> ELSE << c >>

\* Code texts a script passes to execute.
ScriptCodeTexts ==
    { << >>, <<"a">>, <<"a", "b">>, <<"a", " ", "b">>, <<"/", "a">> }

\* Variable mappings a caller passes to execute.
CallerVariables ==
    { [k \in D |-> "v1"] :
        D \in SUBSET { <<"a">>, <<"a", "b">> } \cup
              { { <<"a">>, <<"a", "b">>, <<"/", "a">> } } }

\* Every variable written to one and the same file.
VarFileOneName(name) == <<"vars/", "var", ".pkl">>

\* vars_dir / f"{name}.pkl", relative to the inputs directory.
VarFile(name) == <<"vars/">> \o name \o <<".pkl">>

\* What _save_var leaves in the file of a value.
Pickled(value) == <<"pickle", value>>

\* The content of prelude.py.
PreludeText == <<"prelude">>

\* A directory without files.
NoFiles == [n \in {} |-> << >>]

\* One file per selected variable, under the name derived from its name.
VarFiles(filtered) ==
    [n \in { VarFile(k) : k \in DOMAIN filtered } |->
        Pickled(filtered[CHOOSE k \in DOMAIN filtered : VarFile(k) = n])]

\* The files of `a` together with those of `b`, which win on the same name.
Overlay(a, b) ==
    [n \in DOMAIN a \cup DOMAIN b |-> IF n \in DOMAIN b THEN b[n] ELSE a[n]]

\* Both mounts writable.
MountsInputsWritable == [inputs |-> "rw", outputs |-> "rw"]

\* The -v options of DockerRuntime.run: <inputs>:/inputs:ro, <outputs>:/outputs:rw.
Mounts == [inputs |-> "ro", outputs |-> "rw"]

\* Writes the sandboxed code may attempt: over the staged code, a new file
\* beside it, a file in /outputs and a file in a directory it makes there.
WriteAttempts ==
    { [mount |-> "inputs",  name |-> <<"code.py">>,       content |-> <<"x">>],
      [mount |-> "inputs",  name |-> <<"new.txt">>,       content |-> <<"x">>],
      [mount |-> "outputs", name |-> <<"touch_ok.txt">>,  content |-> <<"ok">>],
      [mount |-> "outputs", name |-> <<"sub/", "f.txt">>, content |-> <<"ok">>] }

\* What the sandboxed code may be, by the writes it attempts: none; one file
\* in /outputs and one over the staged code; a new file in /inputs and a file
\* in a new directory of /outputs; all of them.
ContainerPrograms ==
    { {},
      { w \in WriteAttempts : w.name \in {<<"code.py">>, <<"touch_ok.txt">>} },
      { w \in WriteAttempts : w.name \in {<<"new.txt">>, <<"sub/", "f.txt">>} },
      WriteAttempts }

\* The files of a mounted directory after the container's write attempts: a
\* write lands only where the mount is read-write.
ApplyWrites(files, mount, attempts) ==
    LET landed == { w \in attempts : w.mount = mount /\ Mounts[mount] = "rw" }
    IN  Overlay(files,
                [n \in { w.name : w \in landed } |->
                    (CHOOSE w \in landed : w.name = n).content])

\* The container runs as root (the Dockerfile names no USER and `docker run` no
\* --user): a directory it makes under /outputs belongs to root on the host.
HasRootOwnedDirectory(files) == \E n \in DOMAIN files : Len(n) > 1

\* What the process in the container leaves: exit status and captured streams.
ContainerOutcomes ==
    { [returncode |-> 0, stdout |-> "out", stderr |-> ""],
      [returncode |-> 1, stdout |-> "", stderr |-> "err"],
      [returncode |-> 1, stdout |-> "out", stderr |-> ""] }

\* What `docker run` leaves when the CLI cannot reach the engine: no container
\* starts and the CLI exits nonzero with its complaint on stderr.
EngineDownRun == [returncode |-> 125, stdout |-> "", stderr |-> "daemon"]

\* What a failing `docker build` leaves: the build itself fails, or the CLI
\* cannot reach the engine.
BuildFailures ==
    { [returncode |-> 1, stdout |-> "step", stderr |-> "failed", engine |-> "up"],
      [returncode |-> 1, stdout |-> "", stderr |-> "daemon", engine |-> "down"] }

\* proc.stderr left as it was captured.
StderrAsCaptured(proc) == proc

\* DockerRuntime.run: `if proc.returncode != 0 and not proc.stderr`.
StderrSurfaced(proc) ==
    IF proc.returncode # 0 /\ proc.stderr = ""
    THEN [proc EXCEPT !.stderr = proc.stdout]
    ELSE proc

\* ExecutionResult.success: exit status == 0.
Success(result) == result.returncode = 0

\* ExecutionResult(stdout=proc.stdout, stderr=proc.stderr, returncode=...)
ResultOf(proc) ==
    [stdout |-> proc.stdout, stderr |-> proc.stderr, returncode |-> proc.returncode]

\* The `docker build` command line of ensure_image.
BuildCommand(image, dockerfile) ==
    IF dockerfile # ""
    THEN <<"docker", "build", "-t", image, "-f", dockerfile, "context">>
    ELSE <<"docker", "build", "-t", image, "context">>

NoError ==
    [type |-> "none", command |-> << >>, returncode |-> 0, stdout |-> "",
     stderr |-> ""]

\* An OSError of the standard library: no disk space, no docker binary, ...
OsError == [NoError EXCEPT !.type = "OSError"]

\* A build error whose message says only that the build failed.
BuildErrorBare(cmd, proc) == [NoError EXCEPT !.type = "RuntimeError"]

\* The RuntimeError of ensure_image: its message carries the command, the
\* return code, and the captured stdout and stderr.
BuildError(cmd, proc) ==
    [type |-> "RuntimeError", command |-> cmd, returncode |-> proc.returncode,
     stdout |-> proc.stdout, stderr |-> proc.stderr]

\* How a call ends: nothing yet, a returned value, or a raised error.
NoPending == [kind |-> "none", result |-> EmptyExecutionResult, error |-> NoError]
Returns(result) == [kind |-> "return", result |-> result, error |-> NoError]
Raises(error) == [kind |-> "raise", result |-> EmptyExecutionResult, error |-> error]


VARIABLES
    ex_pc,            \* position of execute / ensure_image
    ex_op,            \* the operation called: execute or ensure_image
    ex_code,          \* parameter code of execute
    ex_image,         \* self.image of the DockerRuntime
    ex_dockerfile,    \* parameter dockerfile of ensure_image ("" for None)
    user_variables,   \* the variable mapping of the caller
    env_image,        \* LLM_ANALYZE_RUNNER_IMAGE of the process ("" when not set)
    workspaces,       \* the calls whose tmp_root exists on disk
    inputs_files,     \* files under tmp_root/inputs of the current call
    outputs_files,    \* files under tmp_root/outputs of the current call
    docker_log,       \* docker CLI invocations since the last call of execute
    images,           \* images the engine holds
    ex_pending,       \* how the try block of execute was left
    ex_outcome,       \* how the last call ended for its caller
    calls_made,       \* calls that have ended
    attempted_writes, \* the writes the container of this call attempted
    scan_code,        \* parameter code of _find_used_variables
    scan_namespace,   \* parameter namespace of _find_used_variables
    scan_result,      \* what it returned
    scan_done         \* whether it has returned

runner_vars == << ex_pc, ex_op, ex_code, ex_image, ex_dockerfile, user_variables,
                  env_image, workspaces, inputs_files, outputs_files, docker_log, images,
                  ex_pending, ex_outcome, calls_made, attempted_writes >>

scan_vars == << scan_code, scan_namespace, scan_result, scan_done >>

VARIABLES
    cache,            \* the disk cache behind cache_store: the two usage keys
    cache_at_start,   \* what the disk cache held before the requests began
    requests,         \* the calls of create in flight, one record each
    reset_pc,         \* position of a call of reset_usage
    tmp_dirs,         \* the directories mkdtemp made that exist, with their files
    runs              \* the calls of execute in flight side by side

usage_vars == << cache, cache_at_start, requests, reset_pc >>

pool_vars == << tmp_dirs, runs >>

other_vars == << scan_vars, usage_vars, pool_vars >>

all_vars == << vars, runner_vars, scan_vars, usage_vars, pool_vars >>

\* create calls in flight side by side on the one disk cache.
MaxRequests == 2

Requests == 1..MaxRequests

\* The ceilings of llm_client.py.
MAX_TOTAL_CALLS == 1000
MAX_TOTAL_TOKENS == 1000000

\* self._calls_key and self._tokens_key.
CallsKey == "llm_total_calls"
TokensKey == "llm_total_tokens"

\* The key under which reset_usage records when it ran.
UsageFromKey == "llm_usage_from"

\* A disk cache that holds neither usage key.
EmptyCache == [k \in {} |-> 0]

\* A disk cache that holds both usage keys.
CacheOf(calls, tokens) ==
    [k \in {CallsKey, TokensKey} |-> IF k = CallsKey THEN calls ELSE tokens]

\* _get_usage(key): cache_store.cache.get(key, 0).
GetUsage(store, key) == IF key \in DOMAIN store THEN store[key] ELSE 0

\* cache_store.cache.set(key, value).
SetUsage(store, key, value) ==
    [k \in DOMAIN store \cup {key} |-> IF k = key THEN value ELSE store[k]]

\* result.usage of a response of the model.
Usages ==
    { [prompt_tokens |-> 1, completion_tokens |-> 0],
      [prompt_tokens |-> 1, completion_tokens |-> 1] }

\* create: total_token = prompt_tokens + completion_tokens * 4.
TotalToken(usage) == usage.prompt_tokens + usage.completion_tokens * 4

\* What the disk cache holds when the requests begin: nothing yet, or the
\* totals that earlier calls left, short of the ceilings or at them.
StartCaches ==
    { EmptyCache,
      CacheOf(MAX_TOTAL_CALLS - 1, MAX_TOTAL_TOKENS - 1),
      CacheOf(MAX_TOTAL_CALLS, MAX_TOTAL_TOKENS - 1),
      CacheOf(MAX_TOTAL_CALLS - 1, MAX_TOTAL_TOKENS) }

\* A call of create that has been entered and has done nothing yet.
NewRequest == [pc |-> "check_calls", cached |-> FALSE, total_token |-> 0, current |-> 0]

\* No call of create is followed.
UsageAtRest ==
    /\ cache = EmptyCache
    /\ cache_at_start = EmptyCache
    /\ requests = << >>
    /\ reset_pc = "idle"

\* No calls of execute side by side are followed.
PoolAtRest ==
    /\ tmp_dirs = << >>
    /\ runs = << >>

\* No call of execute or ensure_image has been made.
RunnerAtRest ==
    /\ ex_pc = "idle"
    /\ ex_op = "none"
    /\ ex_code = << >>
    /\ ex_image = ""
    /\ ex_dockerfile = ""
    /\ workspaces = {}
    /\ inputs_files = NoFiles
    /\ outputs_files = NoFiles
    /\ docker_log = << >>
    /\ ex_pending = NoPending
    /\ ex_outcome = NoPending
    /\ calls_made = 0
    /\ attempted_writes = {}

\* _find_used_variables has not been called on its own.
ScanAtRest ==
    /\ scan_code = << >>
    /\ scan_namespace = NoFiles
    /\ scan_result = NoFiles
    /\ scan_done = FALSE

\* The number of the call in progress.
ThisCall == calls_made + 1

\* One docker CLI invocation: the call that made it and what that call was,
\* the subcommand, the image, whether the engine was reached, the exit status.
DockerCall(call, op, image, engine, rc) ==
    [call |-> call, by |-> ex_op, op |-> op, image |-> image, engine |-> engine,
     rc |-> rc]

\* The `docker run` invocation of DockerRuntime.run, with what its process
\* left as subprocess.run captured it.
DockerRunCall(call, image, engine, proc) ==
    [call |-> call, by |-> ex_op, op |-> "run", image |-> image, engine |-> engine,
     rc |-> proc.returncode, stdout |-> proc.stdout, stderr |-> proc.stderr]

\* execute or ensure_image can be called.
CanCall == ex_pc \in {"idle", "finished"}

----------------------------------------------------------------------------
\* execute(code, variables): entered with its parameters bound.
BeginExecute(code) ==
    /\ ex_pc' = "mkdtemp"
    /\ ex_op' = "execute"
    /\ ex_code' = code
    /\ ex_image' = RuntimeImage(ExecuteImage, env_image)
    /\ ex_dockerfile' = ""
    /\ docker_log' = << >>
    /\ ex_pending' = NoPending
    /\ ex_outcome' = NoPending
    /\ attempted_writes' = {}
    /\ UNCHANGED << user_variables, env_image, workspaces, inputs_files, outputs_files,
                    images, calls_made >>

\* A script calls execute.
ScriptCallsExecute ==
    /\ CanCall
    /\ calls_made < MaxCalls
    /\ \E code \in ScriptCodeTexts : BeginExecute(code)
    /\ UNCHANGED << vars, other_vars >>

\* A script makes a DockerRuntime and calls its ensure_image.
ScriptCallsEnsureImage ==
    /\ CanCall
    /\ calls_made < MaxCalls
    /\ ex_pc' = "inspect"
    /\ ex_op' = "ensure_image"
    /\ \E image \in {"", ExecuteImage} : ex_image' = RuntimeImage(image, env_image)
    /\ \E dockerfile \in {"", "Dockerfile"} : ex_dockerfile' = dockerfile
    /\ ex_outcome' = NoPending
    /\ UNCHANGED << ex_code, user_variables, env_image, workspaces, inputs_files,
                    outputs_files, docker_log, images, ex_pending, calls_made,
                    attempted_writes >>
    /\ UNCHANGED << vars, other_vars >>

\* tmp_root = Path(tempfile.mkdtemp(...)), before the try block: a new, empty
\* directory, to which inputs and outputs refer from here on.
MakeTempRoot ==
    /\ ex_pc = "mkdtemp"
    /\ workspaces' = workspaces \cup {ThisCall}
    /\ inputs_files' = NoFiles
    /\ outputs_files' = NoFiles
    /\ ex_pc' = "mkdirs"
    /\ UNCHANGED << ex_op, ex_code, ex_image, ex_dockerfile, user_variables, env_image,
                    docker_log, images, ex_pending, ex_outcome, calls_made,
                    attempted_writes >>
    /\ UNCHANGED << vars, other_vars >>

\* mkdtemp raises: execute raises with no workspace made.
MakeTempRootRaises ==
    /\ ex_pc = "mkdtemp"
    /\ ex_pc' = "finished"
    /\ ex_outcome' = Raises(OsError)
    /\ calls_made' = calls_made + 1
    /\ UNCHANGED << ex_op, ex_code, ex_image, ex_dockerfile, user_variables, env_image,
                    workspaces, inputs_files, outputs_files, docker_log, images,
                    ex_pending, attempted_writes >>
    /\ UNCHANGED << vars, other_vars >>

\* inputs.mkdir, outputs.mkdir, vars_dir.mkdir
MakeDirs ==
    /\ ex_pc = "mkdirs"
    /\ ex_pc' = "write_code"
    /\ UNCHANGED << ex_op, ex_code, ex_image, ex_dockerfile, user_variables, env_image,
                    workspaces, inputs_files, outputs_files, docker_log, images,
                    ex_pending, ex_outcome, calls_made, attempted_writes >>
    /\ UNCHANGED << vars, other_vars >>

\* (inputs / "code.py").write_text(code)
WriteCode ==
    /\ ex_pc = "write_code"
    /\ inputs_files' = Overlay(inputs_files, [n \in {<<"code.py">>} |-> ex_code])
    /\ ex_pc' = "write_prelude"
    /\ UNCHANGED << ex_op, ex_code, ex_image, ex_dockerfile, user_variables, env_image,
                    workspaces, outputs_files, docker_log, images, ex_pending,
                    ex_outcome, calls_made, attempted_writes >>
    /\ UNCHANGED << vars, other_vars >>

\* _write_prelude_to(inputs / "prelude.py")
WritePrelude ==
    /\ ex_pc = "write_prelude"
    /\ inputs_files' =
           Overlay(inputs_files, [n \in {<<"prelude.py">>} |-> PreludeText])
    /\ ex_pc' = "save_vars"
    /\ UNCHANGED << ex_op, ex_code, ex_image, ex_dockerfile, user_variables, env_image,
                    workspaces, outputs_files, docker_log, images, ex_pending,
                    ex_outcome, calls_made, attempted_writes >>
    /\ UNCHANGED << vars, other_vars >>

\* Every variable of the caller saved, selected or not.
SaveAllVariables(code, variables) == variables

\* filtered = _find_used_variables(code, variables)
SelectVariables(code, variables) == FindUsedVariables(code, variables)

\* What the try block of execute has put under inputs when it constructs the
\* DockerRuntime: code.py, prelude.py and one file per selected variable.
StagedInputs(code, variables) ==
    Overlay(Overlay([n \in {<<"code.py">>} |-> code],
                    [n \in {<<"prelude.py">>} |-> PreludeText]),
            VarFiles(SelectVariables(code, variables)))

\* The loop over filtered.items() runs to its end: one _save_var per item.
SaveVars ==
    /\ ex_pc = "save_vars"
    /\ inputs_files' =
           Overlay(inputs_files, VarFiles(SelectVariables(ex_code, user_variables)))
    /\ ex_pc' = "inspect"
    /\ UNCHANGED << ex_op, ex_code, ex_image, ex_dockerfile, user_variables, env_image,
                    workspaces, outputs_files, docker_log, images, ex_pending,
                    ex_outcome, calls_made, attempted_writes >>
    /\ UNCHANGED << vars, other_vars >>

\* _save_var raises (a value that cannot be pickled) after some of the
\* selected variables have been written.
SaveVarsRaises ==
    /\ ex_pc = "save_vars"
    /\ LET filtered == SelectVariables(ex_code, user_variables)
       IN  /\ filtered # NoFiles
           /\ \E D \in SUBSET DOMAIN filtered :
                /\ D # DOMAIN filtered
                /\ inputs_files' =
                       Overlay(inputs_files, VarFiles([k \in D |-> filtered[k]]))
    /\ ex_pending' = Raises(OsError)
    /\ ex_pc' = "finally"
    /\ UNCHANGED << ex_op, ex_code, ex_image, ex_dockerfile, user_variables, env_image,
                    workspaces, outputs_files, docker_log, images, ex_outcome,
                    calls_made, attempted_writes >>
    /\ UNCHANGED << vars, other_vars >>

\* A mkdir, write_text or copyfile of the staging raises.
StagingRaises ==
    /\ ex_pc \in {"mkdirs", "write_code", "write_prelude"}
    /\ ex_pending' = Raises(OsError)
    /\ ex_pc' = "finally"
    /\ UNCHANGED << ex_op, ex_code, ex_image, ex_dockerfile, user_variables, env_image,
                    workspaces, inputs_files, outputs_files, docker_log, images,
                    ex_outcome, calls_made, attempted_writes >>
    /\ UNCHANGED << vars, other_vars >>

\* ensure_image returns: execute goes on to run, a script has its call back.
EnsureImageReturns ==
    IF ex_op = "execute"
    THEN /\ ex_pc' = "run"
         /\ UNCHANGED << ex_pending, ex_outcome, calls_made >>
    ELSE /\ ex_pc' = "finished"
         /\ ex_outcome' = Returns(EmptyExecutionResult)
         /\ calls_made' = calls_made + 1
         /\ UNCHANGED ex_pending

\* ensure_image raises and execute goes on to run the container all the same.
EnsureImageRaisesRunsOn(error) ==
    IF ex_op = "execute"
    THEN /\ ex_pc' = "run"
         /\ UNCHANGED << ex_pending, ex_outcome, calls_made >>
    ELSE /\ ex_pc' = "finished"
         /\ ex_outcome' = Raises(error)
         /\ calls_made' = calls_made + 1
         /\ UNCHANGED ex_pending

\* ensure_image raises: execute leaves its try block, a script has the error.
EnsureImageRaises(error) ==
    IF ex_op = "execute"
    THEN /\ ex_pc' = "finally"
         /\ ex_pending' = Raises(error)
         /\ UNCHANGED << ex_outcome, calls_made >>
    ELSE /\ ex_pc' = "finished"
         /\ ex_outcome' = Raises(error)
         /\ calls_made' = calls_made + 1
         /\ UNCHANGED ex_pending

\* The image looked for but built whatever the answer.
InspectAlwaysBuilds(rc) == "build"

\* `if insp.returncode == 0: return`
AfterInspect(rc) == IF rc = 0 THEN "return" ELSE "build"

\* ensure_image: `docker image inspect`, answered 0 by an engine that is
\* reachable and holds the image, nonzero otherwise.
InspectImage ==
    /\ ex_pc = "inspect"
    /\ \E engine \in {"up", "down"} :
         LET rc == IF engine = "up" /\ ex_image \in images THEN 0 ELSE 1
         IN  /\ docker_log' =
                    Append(docker_log,
                           DockerCall(ThisCall, "inspect", ex_image, engine, rc))
             /\ IF AfterInspect(rc) = "return"
                THEN EnsureImageReturns
                ELSE /\ ex_pc' = "build"
                     /\ UNCHANGED << ex_pending, ex_outcome, calls_made >>
    /\ UNCHANGED << ex_op, ex_code, ex_image, ex_dockerfile, user_variables, env_image,
                    workspaces, inputs_files, outputs_files, images,
                    attempted_writes >>
    /\ UNCHANGED << vars, other_vars >>

\* ensure_image: `docker build` exits 0 and the engine holds the image.
BuildImage ==
    /\ ex_pc = "build"
    /\ docker_log' =
           Append(docker_log, DockerCall(ThisCall, "build", ex_image, "up", 0))
    /\ images' = images \cup {ex_image}
    /\ EnsureImageReturns
    /\ UNCHANGED << ex_op, ex_code, ex_image, ex_dockerfile, user_variables, env_image,
                    workspaces, inputs_files, outputs_files, attempted_writes >>
    /\ UNCHANGED << vars, other_vars >>

\* ensure_image: `docker build` exits nonzero and RuntimeError is raised.
BuildImageFails ==
    /\ ex_pc = "build"
    /\ \E proc \in BuildFailures :
         /\ docker_log' =
                Append(docker_log,
                       DockerCall(ThisCall, "build", ex_image, proc.engine,
                                  proc.returncode))
         /\ EnsureImageRaises(
                BuildError(BuildCommand(ex_image, ex_dockerfile), proc))
    /\ UNCHANGED << ex_op, ex_code, ex_image, ex_dockerfile, user_variables, env_image,
                    workspaces, inputs_files, outputs_files, images,
                    attempted_writes >>
    /\ UNCHANGED << vars, other_vars >>

\* subprocess.run finds no docker executable: OSError from ensure_image.
EnsureImageCliMissing ==
    /\ ex_pc \in {"inspect", "build"}
    /\ EnsureImageRaises(OsError)
    /\ UNCHANGED << ex_op, ex_code, ex_image, ex_dockerfile, user_variables, env_image,
                    workspaces, inputs_files, outputs_files, docker_log, images,
                    attempted_writes >>
    /\ UNCHANGED << vars, other_vars >>

\* rt.run starts the container: the sandboxed code attempts its writes, the
\* process ends, and execute has its ExecutionResult to return.
RunContainer ==
    /\ ex_pc = "run"
    /\ \E proc \in ContainerOutcomes, attempts \in ContainerPrograms :
         /\ attempted_writes' = attempts
         /\ inputs_files' = ApplyWrites(inputs_files, "inputs", attempts)
         /\ outputs_files' = ApplyWrites(outputs_files, "outputs", attempts)
         /\ docker_log' =
                Append(docker_log, DockerRunCall(ThisCall, ex_image, "up", proc))
         /\ ex_pending' = Returns(ResultOf(StderrSurfaced(proc)))
    /\ ex_pc' = "finally"
    /\ UNCHANGED << ex_op, ex_code, ex_image, ex_dockerfile, user_variables, env_image,
                    workspaces, images, ex_outcome, calls_made >>
    /\ UNCHANGED << vars, other_vars >>

\* rt.run with the engine out of reach: no container starts, subprocess.run
\* returns the nonzero exit of the CLI, rt.run returns it, and execute wraps it
\* like the exit of any container.
RunEngineDown ==
    /\ ex_pc = "run"
    /\ docker_log' =
           Append(docker_log, DockerRunCall(ThisCall, ex_image, "down", EngineDownRun))
    /\ ex_pending' = Returns(ResultOf(StderrSurfaced(EngineDownRun)))
    /\ ex_pc' = "finally"
    /\ UNCHANGED << ex_op, ex_code, ex_image, ex_dockerfile, user_variables, env_image,
                    workspaces, inputs_files, outputs_files, images, ex_outcome,
                    calls_made, attempted_writes >>
    /\ UNCHANGED << vars, other_vars >>

\* subprocess.run finds no docker executable: OSError from rt.run.
RunCliMissing ==
    /\ ex_pc = "run"
    /\ ex_pending' = Raises(OsError)
    /\ ex_pc' = "finally"
    /\ UNCHANGED << ex_op, ex_code, ex_image, ex_dockerfile, user_variables, env_image,
                    workspaces, inputs_files, outputs_files, docker_log, images,
                    ex_outcome, calls_made, attempted_writes >>
    /\ UNCHANGED << vars, other_vars >>

\* shutil.rmtree(tmp_root, ignore_errors=True): whether the tree is gone
\* afterwards. A directory of root cannot be emptied by an unprivileged host
\* user, and the error is ignored.
Removed(files) ==
    IF HasRootOwnedDirectory(files) THEN {TRUE, FALSE} ELSE {TRUE}

\* finally: the workspace is removed and execute returns or raises what its
\* try block left.
Finally ==
    /\ ex_pc = "finally"
    /\ \E gone \in Removed(outputs_files) :
         /\ workspaces' = IF gone THEN workspaces \ {ThisCall} ELSE workspaces
         /\ inputs_files' = IF gone THEN NoFiles ELSE inputs_files
         /\ outputs_files' = IF gone THEN NoFiles ELSE outputs_files
    /\ ex_outcome' = ex_pending
    /\ ex_pc' = "finished"
    /\ calls_made' = calls_made + 1
    /\ UNCHANGED << ex_op, ex_code, ex_image, ex_dockerfile, user_variables, env_image,
                    docker_log, images, ex_pending, attempted_writes >>
    /\ UNCHANGED << vars, other_vars >>

\* A script calls execute and ensure_image, one call after the other.
RunnerInit ==
    /\ Init
    /\ max_code_generation = 0
    /\ RunnerAtRest
    /\ user_variables \in CallerVariables
    /\ env_image \in {"", EnvImage}
    /\ images \in {{}, {ExecuteImage, DefaultImage, EnvImage}}
    /\ ScanAtRest
    /\ UsageAtRest
    /\ PoolAtRest

\* Generations allowed to a run whose sandbox is followed step by step.
MaxSandboxGeneration == 2

\* AgentWorkflow.run with runner.execute followed step by step.
SandboxInit ==
    /\ Init
    /\ max_code_generation \in 0..MaxSandboxGeneration
    /\ RunnerAtRest
    /\ user_variables = [k \in {<<"a">>, <<"a", "b">>} |-> "v1"]
    /\ env_image = ""
    /\ images \in {{}, {ExecuteImage}}
    /\ ScanAtRest
    /\ UsageAtRest
    /\ PoolAtRest

\* _find_used_variables called on its own with any code and any namespace.
FilterInit ==
    /\ Init
    /\ max_code_generation = 0
    /\ RunnerAtRest
    /\ user_variables = NoFiles
    /\ env_image = ""
    /\ images = {}
    /\ scan_code \in CodeTexts(MaxCodeLen)
    /\ scan_namespace \in Namespaces(VariableNames)
    /\ scan_result = NoFiles
    /\ scan_done = FALSE
    /\ UsageAtRest
    /\ PoolAtRest

\* The orchestrator on its own: no call of the runner is followed.
WorkflowInit ==
    /\ Init
    /\ RunnerAtRest
    /\ user_variables = NoFiles
    /\ env_image = ""
    /\ images = {}
    /\ ScanAtRest
    /\ UsageAtRest
    /\ PoolAtRest

\* _find_used_variables returns.
ScanCode ==
    /\ ~scan_done
    /\ scan_result' = FindUsedVariables(scan_code, scan_namespace)
    /\ scan_done' = TRUE
    /\ UNCHANGED << scan_code, scan_namespace, vars, runner_vars, usage_vars, pool_vars >>

FilterNext == ScanCode

FilterSpec == FilterInit /\ [][FilterNext]_all_vars

\* run: sandbox_execute(self.current_code, self.request.user_variables) entered.
ExecuteCall ==
    /\ pc = "execute"
    /\ Len(sandbox_runs) < RunCap
    /\ CanCall
    /\ BeginExecute(SourceText(current_code))
    /\ pc' = "executing"
    /\ UNCHANGED << max_code_generation, code_generation_count, current_code,
                    code_result, execution_result, assessment, history, orig_plan,
                    gen_calls, assess_calls, sandbox_runs, saved, outcome >>
    /\ UNCHANGED other_vars

\* ExecuteReturns with a nonzero exit status taken for an error of the
\* framework: run raises instead of going on to the assessor.
ExecuteReturnsZeroOnly ==
    /\ pc = "executing"
    /\ ex_pc = "finished"
    /\ ex_outcome.kind = "return"
    /\ IF ex_outcome.result.returncode = 0
       THEN /\ execution_result' = ex_outcome.result
            /\ sandbox_runs' = Append(sandbox_runs, current_code)
            /\ code_generation_count' =
                   CountAfterSandboxRun(code_generation_count)
            /\ orig_plan' = assessment.plan
            /\ pc' = "assess"
            /\ UNCHANGED outcome
       ELSE /\ pc' = "raised"
            /\ outcome' = "execute_error"
            /\ UNCHANGED << execution_result, sandbox_runs,
                            code_generation_count, orig_plan >>
    /\ ex_pc' = "idle"
    /\ ex_pending' = NoPending
    /\ attempted_writes' = {}
    /\ inputs_files' = NoFiles
    /\ outputs_files' = NoFiles
    /\ UNCHANGED << max_code_generation, current_code, code_result, assessment,
                    history, gen_calls, assess_calls, saved >>
    /\ UNCHANGED << ex_op, ex_code, ex_image, ex_dockerfile, user_variables, env_image,
                    workspaces, docker_log, images, ex_outcome, calls_made >>
    /\ UNCHANGED other_vars

\* run: sandbox_execute returns its ExecutionResult, whatever the exit status;
\* the attempt is counted and the assessor comes next.
ExecuteReturns ==
    /\ pc = "executing"
    /\ ex_pc = "finished"
    /\ ex_outcome.kind = "return"
    /\ execution_result' = ex_outcome.result
    /\ sandbox_runs' = Append(sandbox_runs, current_code)
    /\ code_generation_count' = CountAfterSandboxRun(code_generation_count)
    /\ orig_plan' = assessment.plan
    /\ pc' = "assess"
    /\ ex_pc' = "idle"
    /\ ex_pending' = NoPending
    /\ attempted_writes' = {}
    /\ inputs_files' = NoFiles
    /\ outputs_files' = NoFiles
    /\ UNCHANGED << max_code_generation, current_code, code_result, assessment,
                    history, gen_calls, assess_calls, saved, outcome >>
    /\ UNCHANGED << ex_op, ex_code, ex_image, ex_dockerfile, user_variables, env_image,
                    workspaces, docker_log, images, ex_outcome, calls_made >>
    /\ UNCHANGED other_vars

\* run: sandbox_execute raises and nothing catches it.
ExecutePropagates ==
    /\ pc = "executing"
    /\ ex_pc = "finished"
    /\ ex_outcome.kind = "raise"
    /\ pc' = "raised"
    /\ outcome' = "execute_error"
    /\ ex_pc' = "idle"
    /\ UNCHANGED << max_code_generation, code_generation_count, current_code,
                    code_result, execution_result, assessment, history, orig_plan,
                    gen_calls, assess_calls, sandbox_runs, saved >>
    /\ UNCHANGED << ex_op, ex_code, ex_image, ex_dockerfile, user_variables, env_image,
                    workspaces, inputs_files, outputs_files, docker_log, images,
                    ex_pending, ex_outcome, calls_made, attempted_writes >>
    /\ UNCHANGED other_vars

SandboxNext ==
    \/ GenerateCode /\ UNCHANGED << runner_vars, other_vars >>
    \/ GenerateRaises /\ UNCHANGED << runner_vars, other_vars >>
    \/ ExecuteCall
    \/ MakeTempRoot
    \/ MakeTempRootRaises
    \/ MakeDirs
    \/ WriteCode
    \/ WritePrelude
    \/ SaveVars
    \/ SaveVarsRaises
    \/ StagingRaises
    \/ InspectImage
    \/ BuildImage
    \/ BuildImageFails
    \/ EnsureImageCliMissing
    \/ RunContainer
    \/ RunEngineDown
    \/ RunCliMissing
    \/ Finally
    \/ ExecuteReturns
    \/ ExecutePropagates
    \/ AssessSucceeded /\ UNCHANGED << runner_vars, other_vars >>
    \/ AssessExhausted /\ UNCHANGED << runner_vars, other_vars >>
    \/ AssessRetry /\ UNCHANGED << runner_vars, other_vars >>
    \/ AssessAgain /\ UNCHANGED << runner_vars, other_vars >>
    \/ AssessRaises /\ UNCHANGED << runner_vars, other_vars >>

SandboxSpec == SandboxInit /\ [][SandboxNext]_all_vars

RunnerNext ==
    \/ ScriptCallsExecute
    \/ ScriptCallsEnsureImage
    \/ MakeTempRoot
    \/ MakeTempRootRaises
    \/ MakeDirs
    \/ WriteCode
    \/ WritePrelude
    \/ SaveVars
    \/ SaveVarsRaises
    \/ StagingRaises
    \/ InspectImage
    \/ BuildImage
    \/ BuildImageFails
    \/ EnsureImageCliMissing
    \/ RunContainer
    \/ RunEngineDown
    \/ RunCliMissing
    \/ Finally

RunnerSpec == RunnerInit /\ [][RunnerNext]_all_vars

----------------------------------------------------------------------------
\* FullLogChatClientCache.create: calls in flight side by side. cache_store is
\* a disk cache shared by every thread and process that uses the client; a get
\* and the set that follows it are two operations on it, and a call yields at
\* `await super().create(...)`.

\* The record of request r with some fields replaced.
RequestStep(r, new) ==
    /\ requests' = [requests EXCEPT ![r] = new]
    /\ UNCHANGED reset_pc

UsageFrame == UNCHANGED << cache_at_start, vars, runner_vars, scan_vars, pool_vars >>

\* The check of the call count written `>` for `>=`.
CheckCallsOffByOne(r) ==
    /\ requests[r].pc = "check_calls"
    /\ IF GetUsage(cache, CallsKey) > MAX_TOTAL_CALLS
       THEN RequestStep(r, [requests[r] EXCEPT !.pc = "limit_exceeded"])
       ELSE RequestStep(r, [requests[r] EXCEPT !.pc = "check_tokens"])
    /\ UNCHANGED cache
    /\ UsageFrame

\* create: `if self._get_usage(self._calls_key) >= MAX_TOTAL_CALLS: raise`.
CheckCalls(r) ==
    /\ requests[r].pc = "check_calls"
    /\ IF GetUsage(cache, CallsKey) >= MAX_TOTAL_CALLS
       THEN RequestStep(r, [requests[r] EXCEPT !.pc = "limit_exceeded"])
       ELSE RequestStep(r, [requests[r] EXCEPT !.pc = "check_tokens"])
    /\ UNCHANGED cache
    /\ UsageFrame

\* create: `if self._get_usage(self._tokens_key) >= MAX_TOTAL_TOKENS: raise`.
CheckTokens(r) ==
    /\ requests[r].pc = "check_tokens"
    /\ IF GetUsage(cache, TokensKey) >= MAX_TOTAL_TOKENS
       THEN RequestStep(r, [requests[r] EXCEPT !.pc = "limit_exceeded"])
       ELSE RequestStep(r, [requests[r] EXCEPT !.pc = "model_call"])
    /\ UNCHANGED cache
    /\ UsageFrame

\* create: `result = await super().create(...)` returns a response of the
\* model, or one found in the response cache; a cached one changes no count.
ModelCallReturns(r) ==
    /\ requests[r].pc = "model_call"
    /\ \E cached \in BOOLEAN, usage \in Usages :
          RequestStep(r, [requests[r] EXCEPT
                             !.pc = IF cached THEN "returned" ELSE "read_calls",
                             !.cached = cached,
                             !.total_token = TotalToken(usage)])
    /\ UNCHANGED cache
    /\ UsageFrame

\* create: super().create raises; the error is logged and raised again.
ModelCallRaises(r) ==
    /\ requests[r].pc = "model_call"
    /\ RequestStep(r, [requests[r] EXCEPT !.pc = "raised"])
    /\ UNCHANGED cache
    /\ UsageFrame

\* _increment_usage: `current = self._get_usage(key)`.
ReadUsage(r, at, key, next) ==
    /\ requests[r].pc = at
    /\ RequestStep(r, [requests[r] EXCEPT !.pc = next,
                                          !.current = GetUsage(cache, key)])
    /\ UNCHANGED cache
    /\ UsageFrame

\* _increment_usage: `new_total = current + amount; cache.set(key, new_total)`.
WriteUsage(r, at, key, amount, next) ==
    /\ requests[r].pc = at
    /\ cache' = SetUsage(cache, key, requests[r].current + amount)
    /\ RequestStep(r, [requests[r] EXCEPT !.pc = next])
    /\ UsageFrame

\* create: self._increment_usage(self._calls_key, 1), its get and its set.
ReadCalls(r) == ReadUsage(r, "read_calls", CallsKey, "set_calls")
WriteCalls(r) == WriteUsage(r, "set_calls", CallsKey, 1, "read_tokens")

\* create: self._increment_usage(self._tokens_key, total_token), its get and
\* its set; `return result` follows.
ReadTokens(r) == ReadUsage(r, "read_tokens", TokensKey, "set_tokens")
WriteTokens(r) ==
    WriteUsage(r, "set_tokens", TokensKey, requests[r].total_token, "returned")

\* A step of reset_usage: one cache_store.cache.set(key, value).
ResetStep(at, key, value, next) ==
    /\ reset_pc = at
    /\ cache' = SetUsage(cache, key, value)
    /\ reset_pc' = next
    /\ UNCHANGED requests
    /\ UsageFrame

\* reset_usage is called, by this process or another one on the same disk
\* cache: cache.set("llm_usage_from", <now>).
ResetStamp == ResetStep("idle", UsageFromKey, "now", "set_calls")

\* reset_usage: cache.set("llm_total_calls", 0).
ResetCalls == ResetStep("set_calls", CallsKey, 0, "set_tokens")

\* reset_usage: cache.set("llm_total_tokens", 0).
ResetTokens == ResetStep("set_tokens", TokensKey, 0, "done")

\* MaxRequests calls of create have been entered on a disk cache that earlier
\* calls may have filled.
UsageInit ==
    /\ Init
    /\ max_code_generation = 0
    /\ RunnerAtRest
    /\ user_variables = NoFiles
    /\ env_image = ""
    /\ images = {}
    /\ ScanAtRest
    /\ PoolAtRest
    /\ cache \in StartCaches
    /\ cache_at_start = cache
    /\ requests = [r \in Requests |-> NewRequest]
    /\ reset_pc = "idle"

UsageNext ==
    \/ \E r \in Requests :
          \/ CheckCalls(r)
          \/ CheckTokens(r)
          \/ ModelCallReturns(r)
          \/ ModelCallRaises(r)
          \/ ReadCalls(r)
          \/ WriteCalls(r)
          \/ ReadTokens(r)
          \/ WriteTokens(r)
    \/ ResetStamp
    \/ ResetCalls
    \/ ResetTokens

UsageSpec == UsageInit /\ [][UsageNext]_all_vars

----------------------------------------------------------------------------
\* execute called side by side by several threads or processes of one host:
\* each call has its own tmp_root and they share the directory for temporary
\* files.

\* Calls of execute in flight side by side.
MaxConcurrent == 2

Executions == 1..MaxConcurrent

\* The names mkdtemp(prefix="codegen_agent_") can give, by their random part:
\* enough for every call, and for every workspace a call leaves behind.
TempNames == 1..(2 * MaxConcurrent)

\* The code of call e: no two calls are given the same text.
PoolCode(e) == <<"code", e>>

\* A tmp_root as mkdtemp leaves it.
EmptyRoot == [inputs |-> NoFiles, outputs |-> NoFiles]

\* One fixed directory for every call.
FixedName(dirs) == {1}

\* tempfile.mkdtemp: a new directory, under a name no directory there has.
MkdtempNames(dirs) == TempNames \ DOMAIN dirs

\* What the sandboxed code of call e leaves under /outputs: nothing, a file,
\* or a file in a directory it makes.
PoolOutputs(e) ==
    { NoFiles,
      [n \in {<<"out.txt">>} |-> PoolCode(e)],
      [n \in {<<"sub/", "f.txt">>} |-> PoolCode(e)] }

\* A call of execute that has been entered.
NewRun(e) ==
    [pc |-> "mkdtemp", root |-> 0, code |-> PoolCode(e), ran |-> << >>,
     raised |-> FALSE]

PoolFrame == UNCHANGED << vars, runner_vars, scan_vars, usage_vars >>

\* The directories with one of them replaced.
WithRoot(dirs, name, root) ==
    [n \in DOMAIN dirs \cup {name} |-> IF n = name THEN root ELSE dirs[n]]

\* execute: tmp_root = Path(tempfile.mkdtemp(prefix="codegen_agent_")).
PoolMakeTempRoot(e) ==
    /\ runs[e].pc = "mkdtemp"
    /\ \E name \in MkdtempNames(tmp_dirs) :
         /\ tmp_dirs' = WithRoot(tmp_dirs, name, EmptyRoot)
         /\ runs' = [runs EXCEPT ![e].pc = "stage", ![e].root = name]
    /\ PoolFrame

\* execute: the directories, code.py, prelude.py and the variable files are
\* written under tmp_root / "inputs".
PoolStage(e) ==
    /\ runs[e].pc = "stage"
    /\ runs[e].root \in DOMAIN tmp_dirs
    /\ LET root == tmp_dirs[runs[e].root]
           staged == [n \in {<<"code.py">>, <<"prelude.py">>} |->
                         IF n = <<"code.py">> THEN runs[e].code ELSE PreludeText]
       IN  tmp_dirs' = WithRoot(tmp_dirs, runs[e].root,
                                [root EXCEPT !.inputs = Overlay(root.inputs, staged)])
    /\ runs' = [runs EXCEPT ![e].pc = "run"]
    /\ PoolFrame

\* execute: rt.run(str(inputs), str(outputs)): the container runs the code.py
\* it finds under its /inputs and writes under its /outputs.
PoolRun(e) ==
    /\ runs[e].pc = "run"
    /\ runs[e].root \in DOMAIN tmp_dirs
    /\ <<"code.py">> \in DOMAIN tmp_dirs[runs[e].root].inputs
    /\ LET root == tmp_dirs[runs[e].root]
       IN  /\ \E written \in PoolOutputs(e) :
                 tmp_dirs' = WithRoot(tmp_dirs, runs[e].root,
                     [root EXCEPT !.outputs = Overlay(root.outputs, written)])
           /\ runs' = [runs EXCEPT ![e].pc = "rmtree",
                                   ![e].ran = root.inputs[<<"code.py">>]]
    /\ PoolFrame

\* execute: a step of the try block raises: a write fails, ensure_image raises,
\* the docker executable cannot be started, or the workspace is not there.
PoolTryRaises(e) ==
    /\ runs[e].pc \in {"stage", "run"}
    /\ runs' = [runs EXCEPT ![e].pc = "rmtree", ![e].raised = TRUE]
    /\ UNCHANGED tmp_dirs
    /\ PoolFrame

\* finally: shutil.rmtree(tmp_root, ignore_errors=True), then execute returns
\* or raises.
PoolRemove(e) ==
    /\ runs[e].pc = "rmtree"
    /\ IF runs[e].root \in DOMAIN tmp_dirs
       THEN \E gone \in Removed(tmp_dirs[runs[e].root].outputs) :
               tmp_dirs' = IF gone
                           THEN [n \in DOMAIN tmp_dirs \ {runs[e].root} |-> tmp_dirs[n]]
                           ELSE tmp_dirs
       ELSE UNCHANGED tmp_dirs
    /\ runs' = [runs EXCEPT ![e].pc = "ended"]
    /\ PoolFrame

\* MaxConcurrent calls of execute have been entered.
PoolInit ==
    /\ Init
    /\ max_code_generation = 0
    /\ RunnerAtRest
    /\ user_variables = NoFiles
    /\ env_image = ""
    /\ images = {}
    /\ ScanAtRest
    /\ UsageAtRest
    /\ tmp_dirs = << >>
    /\ runs = [e \in Executions |-> NewRun(e)]

PoolNext ==
    \E e \in Executions :
        \/ PoolMakeTempRoot(e)
        \/ PoolStage(e)
        \/ PoolRun(e)
        \/ PoolTryRaises(e)
        \/ PoolRemove(e)

PoolSpec == PoolInit /\ [][PoolNext]_all_vars

----------------------------------------------------------------------------
\* AgentWorkflow.run with the sandbox taken as one step.
Next ==
    \/ GenerateCode /\ UNCHANGED << runner_vars, other_vars >>
    \/ GenerateRaises /\ UNCHANGED << runner_vars, other_vars >>
    \/ Execute /\ UNCHANGED << runner_vars, other_vars >>
    \/ ExecuteRaises /\ UNCHANGED << runner_vars, other_vars >>
    \/ AssessSucceeded /\ UNCHANGED << runner_vars, other_vars >>
    \/ AssessExhausted /\ UNCHANGED << runner_vars, other_vars >>
    \/ AssessRetry /\ UNCHANGED << runner_vars, other_vars >>
    \/ AssessAgain /\ UNCHANGED << runner_vars, other_vars >>
    \/ AssessRaises /\ UNCHANGED << runner_vars, other_vars >>

Spec == WorkflowInit /\ [][Next]_vars

\* Every oracle call and every sandbox execution returns or raises.
FairSpec == Spec /\ WF_vars(Next)

----------------------------------------------------------------------------
TypeOK ==
    /\ pc \in {"generate", "execute", "executing", "assess", "done", "raised"}
    /\ max_code_generation \in 0..MaxCodeGeneration
    /\ code_generation_count \in 0..RunCap
    /\ current_code \in GeneratedCodes \cup VerdictCodes
    /\ assessment \in Verdicts \cup {EmptyAssessment}
    /\ execution_result \in
           ExecutionResults \cup {EmptyExecutionResult} \cup
           { ResultOf(StderrSurfaced(proc)) :
               proc \in ContainerOutcomes \cup {EngineDownRun} }
    /\ outcome \in {"none", "SUCCEEDED", "EXHAUSTED", "STOPPED",
                    "generate_error", "execute_error", "assess_error"}

\* The cut-off of the model never stops the loop of the code.
RunCapNotReached == pc = "execute" => Len(sandbox_runs) < RunCap

----------------------------------------------------------------------------
\* Readings of the state used by the properties below.

Returned == pc = "done"
Stopped  == pc \in {"done", "raised"}

TerminalStates == {"SUCCEEDED", "EXHAUSTED", "STOPPED"}

\* The verdict of the i-th completed attempt.
VerdictOf(i) == history[i].assessment

\* A verdict that declines the retry: no success, and no retry asked or no code.
Declines(v) == ~v.success /\ (~v.should_retry \/ v.code = "")

\* A verdict that asks for a retry and supplies the code for it.
OffersRetry(v) == ~v.success /\ v.should_retry /\ v.code # ""

\* An assessment has just completed: its item is the last of the history.
JustAssessed ==
    /\ code_generation_count >= 1
    /\ Len(history) = code_generation_count

----------------------------------------------------------------------------
\* C1 (as stated): for max_code_generation = N a run that returns has made at
\* most N execute->assess cycles and has ended in exactly one of SUCCEEDED,
\* EXHAUSTED, STOPPED.
C1_AtMostNCycles ==
    Returned =>
        /\ Len(sandbox_runs) <= max_code_generation
        /\ assess_calls <= max_code_generation
        /\ Cardinality({s \in TerminalStates : outcome = s}) = 1

\* C1 (amended): a run that returns has made at most max(N, 1) cycles, the
\* first cycle being made whatever N is, and has ended in exactly one of
\* SUCCEEDED (the last verdict reports success), EXHAUSTED (no success and the
\* counter has reached N) and STOPPED.
C1_AtMostNCyclesOnceStarted ==
    Returned =>
        /\ Len(sandbox_runs) <= Max(max_code_generation, 1)
        /\ assess_calls <= Max(max_code_generation, 1)
        /\ assess_calls = Len(sandbox_runs)
        /\ Cardinality({s \in TerminalStates : outcome = s}) = 1
        /\ (outcome = "SUCCEEDED") = assessment.success
        /\ outcome = "EXHAUSTED" =>
               code_generation_count >= max_code_generation

\* A run configured with N >= 2 that used its whole budget and was exhausted.
C1_Witness ==
    /\ Returned
    /\ max_code_generation >= 2
    /\ Len(sandbox_runs) = max_code_generation
    /\ outcome = "EXHAUSTED"

\* C2: after a verdict without success that asks for no retry or carries no
\* code, with the counter below the maximum, the run is over: no further
\* sandbox execution and no further assessment happens, and the run ends in
\* no other terminal state than STOPPED.
C2_StopsWhenRetryDeclined ==
    \A i \in 1..Len(history) :
        (Declines(VerdictOf(i)) /\ i < max_code_generation) =>
            /\ Len(sandbox_runs) = i
            /\ assess_calls = i
            /\ Returned => outcome = "STOPPED"

\* C3 (as stated): when the counter has reached the maximum at the end of an
\* assessment the run ends in EXHAUSTED, whatever the verdict.
C3_ExhaustedWhateverVerdict ==
    (JustAssessed /\ code_generation_count = max_code_generation) =>
        Returned /\ outcome = "EXHAUSTED"

\* C3 (amended): when the counter has reached the maximum at the end of an
\* assessment the run returns; it ends in EXHAUSTED whatever the should_retry
\* flag and the replacement code are if the verdict reports no success, and in
\* SUCCEEDED if it reports success.
C3_ExhaustedUnlessSuccess ==
    (JustAssessed /\ code_generation_count >= max_code_generation) =>
        /\ Returned
        /\ ~assessment.success => outcome = "EXHAUSTED"
        /\ assessment.success => outcome = "SUCCEEDED"

\* A run exhausted by a verdict that asked for a retry and supplied code.
C3_Witness ==
    /\ Returned
    /\ outcome = "EXHAUSTED"
    /\ code_generation_count = max_code_generation
    /\ OffersRetry(assessment)

\* C4: save_to_notebook is called once if the run ends with a verdict that
\* reports success and never otherwise, and the code it is given is the code
\* the last attempt executed.
C4_SavedIffSucceeded ==
    /\ Len(saved) <= 1
    /\ (Len(saved) = 1) = (outcome = "SUCCEEDED")
    /\ (Returned /\ assessment.success) => Len(saved) = 1
    /\ outcome \in {"EXHAUSTED", "STOPPED"} => saved = << >>
    /\ Len(saved) = 1 =>
           /\ Returned
           /\ VerdictOf(Len(history)).success
           /\ saved[1] = sandbox_runs[Len(sandbox_runs)]
           /\ saved[1] = history[Len(history)].code

\* A run that succeeded on a retry and saved the replacement code.
C4_Witness ==
    /\ outcome = "SUCCEEDED"
    /\ Len(history) = 2
    /\ saved = << sandbox_runs[2] >>
    /\ sandbox_runs[2] # sandbox_runs[1]

\* C5: after a verdict without success that asks for a retry and supplies
\* code, with the counter below the maximum, the next sandbox execution runs
\* that code and the Generation Oracle has been called once only.
C5_RetryRunsReplacementCode ==
    \A i \in 1..Len(history) :
        (OffersRetry(VerdictOf(i)) /\ i < max_code_generation) =>
            /\ gen_calls = 1
            /\ Len(sandbox_runs) >= i
            /\ Len(sandbox_runs) = i =>
                   /\ current_code = VerdictOf(i).code
                   /\ \/ pc = "execute"
                      \/ pc = "raised" /\ outcome = "execute_error"
            /\ Len(sandbox_runs) > i => sandbox_runs[i + 1] = VerdictOf(i).code

\* A second execution that ran replacement code differing from the first code.
C5_Witness ==
    /\ Len(sandbox_runs) >= 2
    /\ Len(history) >= 1
    /\ OffersRetry(VerdictOf(1))
    /\ sandbox_runs[2] = VerdictOf(1).code
    /\ sandbox_runs[2] # sandbox_runs[1]

\* C6: the Generation Oracle is called exactly once, before the first
\* execution, and the code of every execution after the first was supplied by
\* a verdict of an earlier attempt.
C6_OneGenerationThenVerdictCode ==
    /\ gen_calls <= 1
    /\ Len(sandbox_runs) >= 1 => gen_calls = 1
    /\ \A i \in 2..Len(sandbox_runs) :
           \E j \in 1..(i - 1) : VerdictOf(j).code = sandbox_runs[i]

\* C7 (as stated): whenever run has returned or raised, the history has one
\* item per sandbox execution and as many items as the attempt counter says.
C7_OneItemPerExecution ==
    Stopped =>
        /\ Len(history) = Len(sandbox_runs)
        /\ Len(history) = code_generation_count

\* C7 (amended): the attempt counter always equals the number of sandbox
\* executions that returned; the history has one item per execution when run
\* has returned or has raised out of the Generation Oracle or the sandbox, and
\* one item less when the Assessment Oracle has raised after an execution.
C7_OneItemPerAssessedExecution ==
    /\ code_generation_count = Len(sandbox_runs)
    /\ Returned => Len(history) = code_generation_count
    /\ pc = "raised" =>
           Len(history) = IF outcome = "assess_error"
                          THEN code_generation_count - 1
                          ELSE code_generation_count

\* A run whose second assessment raised: two executions, one history item.
C7_Witness ==
    /\ pc = "raised"
    /\ outcome = "assess_error"
    /\ Len(sandbox_runs) = 2
    /\ Len(history) = 1

\* C8: when run has returned, current_code, execution_result and assessment
\* are those of the last history item, and current_code is the code of the
\* last execution.
C8_StateIsLastHistoryItem ==
    Returned =>
        /\ Len(history) >= 1
        /\ history[Len(history)].code = current_code
        /\ history[Len(history)].execution_result = execution_result
        /\ history[Len(history)].assessment = assessment
        /\ sandbox_runs[Len(sandbox_runs)] = current_code

\* An exhausted run whose last verdict supplied other code than was executed.
C8_Witness ==
    /\ Returned
    /\ outcome = "EXHAUSTED"
    /\ OffersRetry(assessment)
    /\ assessment.code # current_code

\* The steps run has left at most: two for each attempt the budget still
\* allows, one more while an assessment is pending or before the generation.
Measure ==
    IF Stopped THEN 0
    ELSE 2 * (Max(max_code_generation, 1) - code_generation_count)
         + (IF pc = "execute" THEN 0 ELSE 1)

\* C9: when every oracle call and sandbox execution returns or raises, run
\* eventually returns or raises: every step of run lowers Measure, which
\* is never negative, and a run that can take a step does.
C9_RunTerminates == [][Measure' < Measure]_vars /\ <>Stopped

\* A run that used a budget of at least two with no verdict reporting success.
C9_Witness ==
    /\ Returned
    /\ max_code_generation >= 2
    /\ Len(history) = max_code_generation
    /\ \A i \in 1..Len(history) : ~VerdictOf(i).success

\* C10: with a maximum of 3, a first verdict without success that asks for a
\* retry with code and a second verdict that reports success, the run executes
\* the generated code and then the replacement code, and ends in SUCCEEDED
\* with 2 history items, 1 generation call and 2 assessment calls.
C10_RetryThenSucceed ==
    ( /\ max_code_generation = 3
      /\ Len(history) >= 2
      /\ OffersRetry(VerdictOf(1))
      /\ VerdictOf(2).success ) =>
        /\ Returned
        /\ outcome = "SUCCEEDED"
        /\ Len(history) = 2
        /\ gen_calls = 1
        /\ assess_calls = 2
        /\ sandbox_runs = << code_result.code, VerdictOf(1).code >>
        /\ history[1].code = code_result.code
        /\ history[2].code = VerdictOf(1).code
        /\ saved = << VerdictOf(1).code >>

\* The scenario: generated code "a", replacement code "b", then success.
C10_Witness ==
    /\ max_code_generation = 3
    /\ outcome = "SUCCEEDED"
    /\ Len(history) = 2
    /\ code_result.code = "a"
    /\ OffersRetry(VerdictOf(1))
    /\ VerdictOf(1).code = "b"
    /\ history[2].execution_result.returncode = 0

\* C11: with max_code_generation = 1, a first execution that fails and a
\* first verdict without success that asks for a retry and supplies code, the
\* run ends in EXHAUSTED after 1 execution and 1 history item, and the
\* replacement code is not executed.
C11_ExhaustedDespiteRetry ==
    ( /\ max_code_generation = 1
      /\ Len(history) >= 1
      /\ history[1].execution_result.returncode # 0
      /\ OffersRetry(VerdictOf(1)) ) =>
        /\ Returned
        /\ outcome = "EXHAUSTED"
        /\ Len(history) = 1
        /\ assess_calls = 1
        /\ sandbox_runs = << code_result.code >>
        /\ current_code = code_result.code
        /\ saved = << >>

\* The scenario, with replacement code that differs from the generated code.
C11_Witness ==
    /\ max_code_generation = 1
    /\ outcome = "EXHAUSTED"
    /\ Len(history) = 1
    /\ history[1].execution_result.returncode # 0
    /\ OffersRetry(VerdictOf(1))
    /\ VerdictOf(1).code # code_result.code

----------------------------------------------------------------------------
\* Readings of the runner's state used by the properties below.

\* A call of execute has ended and its caller has not gone on yet.
ExecuteFinished == ex_op = "execute" /\ ex_pc = "finished"

\* The docker CLI invocations of the log with the given subcommand.
LogEntries(op) == { i \in DOMAIN docker_log : docker_log[i].op = op }

\* C12: after execute has finished, by a return or by an exception, the
\* workspace it created does not exist on disk.
C12_WorkspaceRemoved == ExecuteFinished => calls_made \notin workspaces

\* The container of the call in progress has run and its writes are applied.
ContainerRan == ex_pc = "finally" /\ LogEntries("run") # {} /\
                docker_log[Len(docker_log)].engine = "up"

\* C13: the run of the container leaves every file staged under inputs as it
\* was and adds none, whatever the sandboxed code attempts to write there, and
\* every file it writes under /outputs is in the outputs directory afterwards.
C13_InputsReadOnlyOutputsWritable ==
    [][ (ex_pc = "run" /\ ex_pc' = "finally" /\ attempted_writes' # {}) =>
            /\ inputs_files' = inputs_files
            /\ \A w \in attempted_writes' :
                 w.mount = "outputs" =>
                     /\ w.name \in DOMAIN outputs_files'
                     /\ outputs_files'[w.name] = w.content ]_all_vars

\* The container attempted to overwrite the staged code and to write a file
\* under /outputs: the code is as staged and the output file is there.
C13_Witness ==
    /\ ContainerRan
    /\ \E w \in attempted_writes : w.mount = "inputs" /\ w.name = <<"code.py">>
    /\ \E w \in attempted_writes : w.mount = "outputs"
    /\ inputs_files[<<"code.py">>] = ex_code
    /\ ex_code # <<"x">>
    /\ <<"touch_ok.txt">> \in DOMAIN outputs_files

\* C14: a file the sandboxed code wrote under /outputs can be observed by the
\* caller of execute once execute has returned: it is on disk with its content
\* (the ExecutionResult carries the streams and the exit status only).
C14_OutputsVisibleAfterReturn ==
    (ExecuteFinished /\ ex_outcome.kind = "return") =>
        \A w \in attempted_writes :
            w.mount = "outputs" =>
                /\ calls_made \in workspaces
                /\ w.name \in DOMAIN outputs_files
                /\ outputs_files[w.name] = w.content

\* The docker CLI invocations of call c with the given subcommand.
CallEntries(c, op) ==
    { i \in DOMAIN docker_log : docker_log[i].call = c /\ docker_log[i].op = op }

\* Two calls have been made, both of them ensure_image for the same image, the
\* second has ended, and each got as far as its `docker image inspect`.
TwoEnsureImageCalls ==
    /\ calls_made = 2
    /\ ex_pc = "finished"
    /\ \A c \in {1, 2} :
         \E i \in CallEntries(c, "inspect") :
             /\ docker_log[i].by = "ensure_image"
             /\ docker_log[i].image = ex_image

\* The first of the two calls returned normally: the last thing it did was an
\* inspect or a build that exited 0.
FirstCallReturned ==
    \E i \in DOMAIN docker_log :
        /\ docker_log[i].call = 1
        /\ docker_log[i].rc = 0
        /\ \A j \in DOMAIN docker_log : docker_log[j].call = 1 => j <= i

\* The engine held the image when the second call began: it holds it now and
\* the second call did not build it.
ImageHeldBeforeSecondCall ==
    /\ ex_image \in images
    /\ \A i \in CallEntries(2, "build") : docker_log[i].rc # 0

\* The engine answered the inspect of the second call.
SecondInspectAnswered ==
    \A i \in CallEntries(2, "inspect") : docker_log[i].engine = "up"

AppearsAsToken(key, code) ==
    \E i \in 1..Len(code), j \in 1..Len(code) :
        /\ i <= j
        /\ SubSeq(code, i, j) = key
        /\ IsIdentStart(code[i])
        /\ \A m \in i..j : IsIdentChar(code[m])
        /\ i = 1 \/ ~IsWordChar(code[i - 1])
        /\ j = Len(code) \/ ~IsWordChar(code[j + 1])

VarFileNames(files) == { n \in DOMAIN files : n[1] = "vars/" }

\* The files of the variables of the caller whose name is a token of the code.
TokenVarFiles ==
    { VarFile(k) : k \in { n \in DOMAIN user_variables :
                             AppearsAsToken(n, ex_code) } }

\* execute is between its mkdtemp and the end of its finally block.
WorkspaceInUse ==
    /\ ex_op = "execute"
    /\ ex_pc \in {"mkdirs", "write_code", "write_prelude", "save_vars", "inspect",
                  "build", "run", "finally"}

\* C17: when execute is about to run the container, the variable files under
\* inputs are exactly one per variable whose name is a token of the code, each
\* holding that variable's value; and at no point of the call is there a file
\* of a variable whose name is not a token of the code.
C17_OnlySelectedVariablesStaged ==
    /\ WorkspaceInUse => VarFileNames(inputs_files) \subseteq TokenVarFiles
    /\ (ex_op = "execute" /\ ex_pc = "run") =>
           /\ VarFileNames(inputs_files) = TokenVarFiles
           /\ \A k \in DOMAIN user_variables :
                  VarFile(k) \in DOMAIN inputs_files =>
                      inputs_files[VarFile(k)] = Pickled(user_variables[k])

\* The caller holds `a` and `ab`, the code is the token `ab`: at the run the
\* only variable file is the one of `ab`.
C17_Witness ==
    /\ ex_op = "execute"
    /\ ex_pc = "run"
    /\ ex_code = <<"a", "b">>
    /\ DOMAIN user_variables = {<<"a">>, <<"a", "b">>}
    /\ VarFileNames(inputs_files) = {VarFile(<<"a", "b">>)}

\* The `docker run` of the last call of execute did not reach the engine.
EngineDownAtRun ==
    \E i \in LogEntries("run") : docker_log[i].engine = "down"

\* The Assessment Oracle has been invoked for every execution that returned,
\* the last one included.
LastResultAssessed ==
    /\ pc \in {"execute", "assess", "done", "raised"}
    /\ assess_calls > 0
    /\ assess_calls = Len(sandbox_runs)

\* C18: when the engine cannot be reached as the run is launched, execute does
\* not return an ExecutionResult with a nonzero returncode that the
\* orchestrator hands to the Assessment Oracle.
C18_EngineFailureNotAssessed ==
    ~( /\ EngineDownAtRun
       /\ LastResultAssessed
       /\ execution_result.returncode # 0 )

\* The `docker build` of the call of execute in progress, or of the last call
\* of execute, exited nonzero.
BuildFailed ==
    /\ ex_op = "execute"
    /\ \E i \in LogEntries("build") : docker_log[i].rc # 0

\* How the call of execute that is ending, or has ended, leaves.
Leaving == IF ex_pc = "finally" THEN ex_pending ELSE ex_outcome

\* The failed build of the log and the error raised for it agree.
ErrorCarriesBuild(error) ==
    \E i \in LogEntries("build"), proc \in BuildFailures :
        /\ docker_log[i].rc = proc.returncode
        /\ docker_log[i].engine = proc.engine
        /\ error.type = "RuntimeError"
        /\ error.command = BuildCommand(ex_image, ex_dockerfile)
        /\ error.returncode = proc.returncode
        /\ error.returncode # 0
        /\ error.stdout = proc.stdout
        /\ error.stderr = proc.stderr

\* C19: when the image build fails, (a) ensure_image raises an error that
\* carries the build command, the exit code and the captured stdout and stderr,
\* and execute raises it with no `docker run` issued; (b) the step of
\* AgentWorkflow.run that follows is the raise of run, with no Assessment Oracle
\* call, no history item and no increment of the attempt counter; (c) after
\* run has raised nothing happens any more: no further attempt is started.
C19_BuildFailureAborts ==
    /\ [](BuildFailed =>
            /\ Leaving.kind = "raise"
            /\ ErrorCarriesBuild(Leaving.error)
            /\ LogEntries("run") = {})
    /\ [][(BuildFailed /\ pc = "executing" /\ ex_pc = "finished") =>
            /\ pc' = "raised"
            /\ outcome' = "execute_error"
            /\ assess_calls' = assess_calls
            /\ history' = history
            /\ code_generation_count' = code_generation_count
            /\ sandbox_runs' = sandbox_runs]_all_vars
    /\ [][pc # "raised"]_all_vars

\* The second attempt of a run found the engine out of reach, its build
\* failed, and run raised with the one history item of the first attempt.
C19_Witness ==
    /\ BuildFailed
    /\ pc = "raised"
    /\ outcome = "execute_error"
    /\ Len(history) = 1
    /\ assess_calls = 1
    /\ code_generation_count = 1
    /\ calls_made = 2

\* The `docker run` of the last call of execute was issued and exited.
RunExited == ex_op = "execute" /\ LogEntries("run") # {}

\* C20: (a) whatever the exit status of the run, execute leaves by a return,
\* and its ExecutionResult holds that exit status; (b) when sandbox_execute has
\* returned, the next step of AgentWorkflow.run takes the ExecutionResult as it
\* is and goes to the Assessment Oracle with the code that was executed;
\* (c) every step taken from there is an invocation of the Assessment Oracle,
\* made with that ExecutionResult and that code, and an item recorded for it
\* holds them.
C20_NonzeroExitIsAssessed ==
    /\ []((RunExited /\ ex_pc \in {"finally", "finished"}) =>
            /\ Leaving.kind = "return"
            /\ \E i \in LogEntries("run") :
                   Leaving.result.returncode = docker_log[i].rc)
    /\ [][(pc = "executing" /\ ex_pc = "finished" /\ ex_outcome.kind = "return") =>
            /\ pc' = "assess"
            /\ execution_result' = ex_outcome.result
            /\ current_code' = current_code
            /\ SourceText(current_code) = ex_code]_all_vars
    /\ [][pc = "assess" =>
            /\ assess_calls' = assess_calls + 1
            /\ execution_result = ex_outcome.result
            /\ SourceText(current_code) = ex_code
            /\ Len(history') > Len(history) =>
                   /\ history'[Len(history')].execution_result = execution_result
                   /\ history'[Len(history')].code = current_code]_all_vars

\* A container that exited 1 with output on stdout only: its result, stderr
\* filled from stdout, is in the history item of the assessment made of it.
C20_Witness ==
    /\ Len(history) = 1
    /\ assess_calls = 1
    /\ RunExited
    /\ docker_log[Len(docker_log)].rc = 1
    /\ history[1].execution_result =
           [stdout |-> "out", stderr |-> "out", returncode |-> 1]
    /\ SourceText(history[1].code) = ex_code

\* C21: an error of the Generation Oracle or of the Assessment Oracle makes run
\* raise, and nothing is retried: (a) after a Generation Oracle error the run
\* has raised with no sandbox execution and no Assessment Oracle call; (b)
\* after an Assessment Oracle error the run has raised; (c) once run has raised
\* no step is taken any more, so no oracle is called and nothing is executed.
C21_OracleErrorPropagates ==
    /\ [](outcome = "generate_error" =>
            /\ pc = "raised"
            /\ gen_calls = 1
            /\ sandbox_runs = << >>
            /\ assess_calls = 0)
    /\ [](outcome = "assess_error" =>
            /\ pc = "raised"
            /\ gen_calls = 1
            /\ assess_calls = Len(sandbox_runs)
            /\ Len(history) = assess_calls - 1)
    /\ [][pc # "raised"]_vars

\* The Assessment Oracle raised at its second call: two executions, one
\* history item, and the run has raised.
C21_Witness ==
    /\ pc = "raised"
    /\ outcome = "assess_error"
    /\ assess_calls = 2
    /\ Len(sandbox_runs) = 2
    /\ Len(history) = 1

----------------------------------------------------------------------------
\* Readings of the usage counters.

\* Every call of create that was entered has returned or raised.
AllRequestsEnded ==
    \A r \in Requests : requests[r].pc \in {"returned", "raised", "limit_exceeded"}

\* The calls that completed with a response that was not cached.
CountedRequests ==
    { r \in Requests : requests[r].pc = "returned" /\ ~requests[r].cached }

\* The sum of the token amounts of a set of requests.
RECURSIVE TokenSum(_)
TokenSum(rs) ==
    IF rs = {} THEN 0
    ELSE LET r == CHOOSE x \in rs : TRUE
         IN  requests[r].total_token + TokenSum(rs \ {r})

\* C22: no update of the shared usage counters is lost: once k calls of create
\* that ran side by side have completed with a response that was not cached,
\* the stored call count has grown by exactly k and the stored token count by
\* exactly the sum of the calls' token amounts.
C22_NoLostUpdate ==
    AllRequestsEnded /\ reset_pc = "idle" =>
        /\ GetUsage(cache, CallsKey) =
               GetUsage(cache_at_start, CallsKey) + Cardinality(CountedRequests)
        /\ GetUsage(cache, TokensKey) =
               GetUsage(cache_at_start, TokensKey) + TokenSum(CountedRequests)

\* C30: the stored total call count never exceeds MAX_TOTAL_CALLS, in any
\* state that calls of create running side by side can reach.
C30_CallCeilingHolds == GetUsage(cache, CallsKey) <= MAX_TOTAL_CALLS

----------------------------------------------------------------------------
\* Readings of calls of execute side by side.

\* Call e has its workspace: mkdtemp has returned and rmtree has not run.
HoldsWorkspace(e) == runs[e].pc \in {"stage", "run", "rmtree"}

\* C23: calls of execute side by side never share a workspace: (a) two calls
\* that hold a workspace hold different ones; (b) a step of one call leaves the
\* workspace of every other call that holds one in place, its inputs and its
\* outputs as they were; (c) the container of a call runs the code of that
\* call, and what lies under its outputs was written by it.
C23_WorkspacesNeverShared ==
    /\ [](\A e1, e2 \in Executions :
             HoldsWorkspace(e1) /\ HoldsWorkspace(e2) /\ e1 # e2
                 => runs[e1].root # runs[e2].root)
    /\ [](\A e \in Executions :
             /\ runs[e].ran # << >> => runs[e].ran = runs[e].code
             /\ HoldsWorkspace(e) =>
                   /\ runs[e].root \in DOMAIN tmp_dirs
                   /\ \A n \in DOMAIN tmp_dirs[runs[e].root].outputs :
                         tmp_dirs[runs[e].root].outputs[n] = runs[e].code)
    /\ [][\A e \in Executions :
             HoldsWorkspace(e) /\ runs'[e] = runs[e] =>
                 /\ runs[e].root \in DOMAIN tmp_dirs'
                 /\ tmp_dirs'[runs[e].root] = tmp_dirs[runs[e].root]]_all_vars

\* One call has removed its workspace while the other, staged under another
\* name, is about to run with its own code in place.
C23_Witness ==
    /\ runs[1].pc = "ended"
    /\ runs[1].ran = runs[1].code
    /\ runs[1].root \notin DOMAIN tmp_dirs
    /\ runs[2].pc = "run"
    /\ runs[2].root \in DOMAIN tmp_dirs
    /\ tmp_dirs[runs[2].root].inputs[<<"code.py">>] = runs[2].code

\* C24: when LLM_ANALYZE_RUNNER_IMAGE is set, every docker invocation (inspect,
\* build, run) of a call of execute that was given no image names the image of
\* the environment variable.
C24_EnvironmentSelectsImage ==
    \A i \in DOMAIN docker_log :
        docker_log[i].by = "execute" /\ env_image # ""
            => docker_log[i].image = env_image

\* C25: code_generation_count is 0 until the first sandbox execution, grows
\* by exactly 1 with each sandbox execution and with nothing else, never
\* decreases, and at the k-th call of the Assessment Oracle equals k, the
\* number of sandbox executions performed so far in the run.
C25_CounterCountsExecutions ==
    /\ [](sandbox_runs = << >> => code_generation_count = 0)
    /\ [](pc = "assess" => code_generation_count = Len(sandbox_runs))
    /\ [][/\ code_generation_count' \in
                 {code_generation_count, code_generation_count + 1}
          /\ (code_generation_count' = code_generation_count + 1)
                 <=> (Len(sandbox_runs') = Len(sandbox_runs) + 1)
          /\ (assess_calls' = assess_calls + 1) =>
                 /\ code_generation_count = assess_calls'
                 /\ code_generation_count = Len(sandbox_runs)]_vars

\* The third call of the Assessment Oracle is about to be made, the counter
\* at 3 after three executions.
C25_Witness ==
    /\ pc = "assess"
    /\ assess_calls = 2
    /\ code_generation_count = 3
    /\ Len(sandbox_runs) = 3

\* C26: the history is append-only and the Assessment Oracle sees the earlier
\* attempts only: the k-th call of the Assessment Oracle is made with a history
\* of exactly k-1 items, the items of the k-1 earlier attempts in their order
\* (item i holds the code that execution i ran), and a step never removes,
\* reorders or replaces an item the history holds.
C26_HistoryAppendOnly ==
    /\ [](pc = "assess" =>
             /\ Len(history) = assess_calls
             /\ Len(history) = Len(sandbox_runs) - 1
             /\ \A i \in 1..Len(history) : history[i].code = sandbox_runs[i])
    /\ [][/\ Len(history') >= Len(history)
          /\ \A i \in 1..Len(history) : history'[i] = history[i]
          /\ Len(history') <= Len(history) + 1
          /\ (assess_calls' = assess_calls + 1) => Len(history) = assess_calls]_vars

\* The third call of the Assessment Oracle is about to be made with the two
\* items of the two earlier attempts, which ran different code.
C26_Witness ==
    /\ pc = "assess"
    /\ assess_calls = 2
    /\ Len(history) = 2
    /\ history[1].code # history[2].code

\* C27: each history item records the plan that preceded its attempt: the plan
\* of the first item is the plan of the initial empty assessment, and the plan
\* of every later item is the plan of the verdict stored in the item before
\* it, whatever the plan of its own verdict.
C27_ItemHoldsPrecedingPlan ==
    \A i \in 1..Len(history) :
        history[i].plan =
            IF i = 1 THEN EmptyAssessment.plan ELSE history[i - 1].assessment.plan

\* A second item whose plan is that of the first verdict and differs from the
\* plan of its own verdict.
C27_Witness ==
    /\ Len(history) >= 2
    /\ history[2].plan = history[1].assessment.plan
    /\ history[2].plan # history[2].assessment.plan
    /\ history[1].plan # history[1].assessment.plan

\* Everything execute stages is in place under inputs.
StagingComplete ==
    /\ {<<"code.py">>, <<"prelude.py">>} \subseteq DOMAIN inputs_files
    /\ inputs_files[<<"code.py">>] = ex_code
    /\ inputs_files[<<"prelude.py">>] = PreludeText
    /\ TokenVarFiles \subseteq DOMAIN inputs_files

\* The last docker invocation is an inspect or a build of call c that exited 0:
\* ensure_image has just returned.
EnsureImageJustReturned(log, c) ==
    /\ log # << >>
    /\ log[Len(log)].call = c
    /\ log[Len(log)].op \in {"inspect", "build"}
    /\ log[Len(log)].rc = 0

\* C28: the steps of one call of execute keep their order and the container
\* is launched at most once: (a) code.py, prelude.py and the file of every
\* selected variable are written when ensure_image is called, and still when
\* run is invoked; (b) run is invoked only from ensure_image, just returned,
\* and is invoked whenever ensure_image returns; (c) a call launches at most
\* one container, and none unless run was invoked; (d) a call that leaves its
\* try block from anywhere but run (staging or ensure_image raised) has
\* launched no container and raises; (e) the workspace is there from mkdtemp
\* to the finally block, is removed by the finally block only, and the finally
\* block is what follows run.
C28_StepsInOrder ==
    /\ [](ex_op = "execute" /\ ex_pc \in {"inspect", "build", "run"}
             => StagingComplete)
    /\ [](ex_op = "execute" =>
             /\ Cardinality(CallEntries(ThisCall, "run")) <= 1
             /\ ex_pc \in {"mkdtemp", "mkdirs", "write_code", "write_prelude",
                           "save_vars", "inspect", "build", "run"}
                    => LogEntries("run") = {})
    /\ [](WorkspaceInUse => ThisCall \in workspaces)
    /\ [][ex_op' = "execute" =>
             /\ (ex_pc' = "run" /\ ex_pc # "run") =>
                    /\ ex_pc \in {"inspect", "build"}
                    /\ EnsureImageJustReturned(docker_log', ThisCall)
             /\ (ex_pc \in {"inspect", "build"} /\ docker_log' # docker_log
                    /\ EnsureImageJustReturned(docker_log', ThisCall))
                    => ex_pc' = "run"
             /\ (ex_pc = "run" /\ ex_pc' # "run") => ex_pc' = "finally"
             /\ (ex_pc' = "finally" /\ ex_pc \notin {"run", "finally"}) =>
                    /\ ex_pending'.kind = "raise"
                    /\ LogEntries("run") = {}
                    /\ docker_log' = docker_log
                         \/ ~EnsureImageJustReturned(docker_log', ThisCall)
             /\ (\E c \in workspaces : c \notin workspaces') => ex_pc = "finally"
         ]_all_vars

\* A call of execute built the image, launched its one container after that
\* and has removed its workspace.
C28_Witness ==
    /\ ExecuteFinished
    /\ ex_outcome.kind = "return"
    /\ Len(docker_log) = 3
    /\ docker_log[1].op = "inspect" /\ docker_log[1].rc # 0
    /\ docker_log[2].op = "build" /\ docker_log[2].rc = 0
    /\ docker_log[3].op = "run"
    /\ calls_made \notin workspaces

\* A call of ensure_image made by a script has ended; it was call calls_made.
EnsureImageEnded == ex_op = "ensure_image" /\ ex_pc = "finished"

\* The docker invocations of the call that has ended, by subcommand and by
\* whether they exited 0.
EndedCallEntries(op, zero) ==
    { i \in CallEntries(calls_made, op) : (docker_log[i].rc = 0) = zero }

\* C29 as stated: a call of ensure_image issues a build if and only if its
\* inspect reported the image absent (exited nonzero), issues at most one
\* build, returns normally when the inspect or the build exited 0, and raises
\* if and only if the build it issued exited nonzero.
C29_BuildIffAbsentRaiseIffBuildFails ==
    EnsureImageEnded =>
        /\ CallEntries(calls_made, "build") # {}
               <=> EndedCallEntries("inspect", FALSE) # {}
        /\ Cardinality(CallEntries(calls_made, "build")) <= 1
        /\ (EndedCallEntries("inspect", TRUE) # {}
               \/ EndedCallEntries("build", TRUE) # {})
               => ex_outcome.kind = "return"
        /\ ex_outcome.kind = "raise" <=> EndedCallEntries("build", FALSE) # {}

\* C29, amended: a call of ensure_image issues a build only after its inspect
\* exited nonzero, and then always unless the docker executable cannot be
\* started; it issues at most one build; it returns normally if and only if
\* the inspect or the build exited 0; it raises RuntimeError if and only if
\* the build it issued exited nonzero; and it raises OSError, with no failed
\* build, exactly when the docker executable could not be started.
C29_BuildOnlyIfAbsentRuntimeErrorIffBuildFails ==
    EnsureImageEnded =>
        /\ CallEntries(calls_made, "build") # {}
               => /\ EndedCallEntries("inspect", FALSE) # {}
                  /\ EndedCallEntries("inspect", TRUE) = {}
        /\ EndedCallEntries("inspect", FALSE) # {}
               => \/ CallEntries(calls_made, "build") # {}
                  \/ ex_outcome = Raises(OsError)
        /\ Cardinality(CallEntries(calls_made, "build")) <= 1
        /\ Cardinality(CallEntries(calls_made, "inspect")) <= 1
        /\ ex_outcome.kind = "return"
               <=> \/ EndedCallEntries("inspect", TRUE) # {}
                   \/ EndedCallEntries("build", TRUE) # {}
        /\ (ex_outcome.kind = "raise" /\ ex_outcome.error.type = "RuntimeError")
               <=> EndedCallEntries("build", FALSE) # {}
        /\ ex_outcome = Raises(OsError)
               <=> /\ EndedCallEntries("build", FALSE) = {}
                   /\ EndedCallEntries("build", TRUE) = {}
                   /\ EndedCallEntries("inspect", TRUE) = {}

\* A call whose inspect exited nonzero and whose one build failed has raised
\* RuntimeError.
C29_Witness ==
    /\ EnsureImageEnded
    /\ Cardinality(EndedCallEntries("inspect", FALSE)) = 1
    /\ Cardinality(EndedCallEntries("build", FALSE)) = 1
    /\ ex_outcome.kind = "raise"
    /\ ex_outcome.error.type = "RuntimeError"

\* Request r takes a step.
Steps(r) == requests'[r] # requests[r]

\* C31: create rejects a call with UsageLimitExceededError before the model is
\* contacted whenever the stored call count is at or above MAX_TOTAL_CALLS or
\* the stored token count is at or above MAX_TOTAL_TOKENS, and a rejected call
\* leaves both counters as they were: (a) the check of the call count rejects
\* exactly when the stored count is at or above the ceiling, and so does the
\* check of the token count; (b) the model is contacted only by a call that
\* passed both checks; (c) the checks change nothing in the store and a
\* rejected call takes no further step.
C31_RejectsAtCeilingBeforeModel ==
    [][\A r \in Requests :
          Steps(r) =>
             /\ requests[r].pc = "check_calls" =>
                   /\ cache' = cache
                   /\ requests'[r].pc =
                          IF GetUsage(cache, CallsKey) >= MAX_TOTAL_CALLS
                          THEN "limit_exceeded" ELSE "check_tokens"
             /\ requests[r].pc = "check_tokens" =>
                   /\ cache' = cache
                   /\ requests'[r].pc =
                          IF GetUsage(cache, TokensKey) >= MAX_TOTAL_TOKENS
                          THEN "limit_exceeded" ELSE "model_call"
             /\ requests'[r].pc = "model_call" => requests[r].pc = "check_tokens"
             /\ requests'[r].pc = "limit_exceeded" =>
                   requests[r].pc \in {"check_calls", "check_tokens"}
             /\ requests[r].pc # "limit_exceeded"
      ]_all_vars

\* One call was rejected on the call count and nothing has changed the store;
\* the other was rejected too.
C31_Witness ==
    /\ GetUsage(cache_at_start, CallsKey) >= MAX_TOTAL_CALLS
    /\ \A r \in Requests : requests[r].pc = "limit_exceeded"
    /\ cache = cache_at_start

\* A step of reset_usage.
ResetSteps == reset_pc' # reset_pc

\* C32: the usage counters change only on a model result that was not cached:
\* (a) a step of a call that returns a cached result, or that raises, leaves
\* both counters as they were; (b) a call with a result that was not cached
\* raises the stored call count by exactly 1 and the stored token count by
\* exactly prompt_tokens + 4 * completion_tokens; (c) no other step changes a
\* counter but one of reset_usage, which sets it to 0, and so no counter ever
\* decreases except through reset_usage.
C32_CountersChangeOnlyOnModelResult ==
    [][/\ \A r \in Requests :
            Steps(r) =>
               /\ requests[r].pc \in {"check_calls", "check_tokens", "model_call",
                                      "read_calls", "read_tokens"}
                      => cache' = cache
               /\ requests[r].pc = "set_calls" =>
                      /\ ~requests[r].cached
                      /\ GetUsage(cache', CallsKey) = GetUsage(cache, CallsKey) + 1
                      /\ GetUsage(cache', TokensKey) = GetUsage(cache, TokensKey)
               /\ requests[r].pc = "set_tokens" =>
                      /\ ~requests[r].cached
                      /\ GetUsage(cache', TokensKey) =
                             GetUsage(cache, TokensKey) + requests[r].total_token
                      /\ GetUsage(cache', CallsKey) = GetUsage(cache, CallsKey)
       /\ \A key \in {CallsKey, TokensKey} :
            /\ ResetSteps => GetUsage(cache', key) \in {0, GetUsage(cache, key)}
            /\ GetUsage(cache', key) < GetUsage(cache, key) => ResetSteps
      ]_all_vars

\* The `docker run` invocation of the call of execute that is ending or has
\* ended with a return.
RunOfReturn == docker_log[Len(docker_log)]

\* C33: the ExecutionResult execute returns carries the exit status and the
\* stdout of the `docker run` process as captured, so that success is the exit
\* status being 0 whatever the streams hold; and its stderr is the captured
\* stderr, replaced by the captured stdout exactly when the exit status is
\* nonzero and the captured stderr is empty.
C33_ResultCarriesExitStatus ==
    (ex_op = "execute" /\ ex_pc \in {"finally", "finished"}
        /\ Leaving.kind = "return") =>
        /\ RunOfReturn.op = "run"
        /\ Leaving.result.returncode = RunOfReturn.rc
        /\ Leaving.result.stdout = RunOfReturn.stdout
        /\ Success(Leaving.result) <=> RunOfReturn.rc = 0
        /\ Leaving.result.stderr =
               IF RunOfReturn.rc # 0 /\ RunOfReturn.stderr = ""
               THEN RunOfReturn.stdout ELSE RunOfReturn.stderr

\* execute has returned the result of a container that exited 1 with output on
\* stdout only: stdout is carried over and repeated as stderr.
C33_Witness ==
    /\ ExecuteFinished
    /\ ex_outcome.kind = "return"
    /\ RunOfReturn.rc = 1
    /\ RunOfReturn.stderr = ""
    /\ ex_outcome.result = [stdout |-> "out", stderr |-> "out", returncode |-> 1]

\* The name is an identifier: a letter or underscore first, then letters,
\* digits and underscores.
IsIdentifier(name) ==
    /\ name # << >>
    /\ IsIdentStart(name[1])
    /\ \A i \in 1..Len(name) : IsIdentChar(name[i])

\* The path stays under the directory it is relative to: none of its parts
\* after the first is a separator, so it is neither absolute nor climbing.
StaysInside(path) == \A i \in 2..Len(path) : path[i] # "/"

\* The variables of the caller that execute selects: those the files of which
\* are under inputs when the container is about to run.
SelectedNames == { k \in DOMAIN user_variables : AppearsAsToken(k, ex_code) }

OtherMappings ==
    Namespaces({ <<"a">>, <<"a", "b">>, <<"/", "a">>, <<"b">> })

\* The two mappings agree on every variable the Relevance Filter selects for
\* the code: such a name is bound in both or in neither, and to the same value.
AgreeOnSelected(code, m1, m2) ==
    \A k \in DOMAIN m1 \cup DOMAIN m2 :
        AppearsAsToken(k, code) =>
            /\ k \in DOMAIN m1 /\ k \in DOMAIN m2
            /\ m1[k] = m2[k]

\* C35: what execute stages under inputs for a code text depends on the
\* selected variables only: when the container is about to run, the inputs
\* directory is, file for file, what a call with the same code and any other
\* variable mapping that agrees on the selected variables stages, however the
\* two mappings differ on the others.
C35_UnselectedVariablesDoNotShow ==
    (ex_op = "execute" /\ ex_pc = "run") =>
        \A other \in OtherMappings :
            AgreeOnSelected(ex_code, user_variables, other) =>
                inputs_files = StagedInputs(ex_code, other)

\* The code is `a b`; the caller holds `a` and `ab`, of which only `a` is
\* selected; a mapping that binds `a` alike, `ab` to another value and `/a`
\* besides would find the same files staged.
C35_Witness ==
    /\ ex_op = "execute"
    /\ ex_pc = "run"
    /\ ex_code = <<"a", " ", "b">>
    /\ DOMAIN user_variables = { <<"a">>, <<"a", "b">> }
    /\ LET other == [k \in { <<"a">>, <<"a", "b">>, <<"/", "a">> } |->
                        IF k = <<"a">> THEN "v1" ELSE "v2"]
       IN  /\ other \in OtherMappings
           /\ AgreeOnSelected(ex_code, user_variables, other)
           /\ other # user_variables
           /\ inputs_files = StagedInputs(ex_code, other)

====
